---- MODULE Spec2Model ----
(***************************************************************************)
(* GreenScreenStudio: the Previewer client (frontend/src/components/       *)
(* Previewer/Previewer.tsx), its file inputs, and the companion service it *)
(* talks to over HTTP.  The companion service (companion-app/server.py) is *)
(* not part of the sources at hand; its operations (Srv...) follow the     *)
(* natural-language specification.                                         *)
(*                                                                         *)
(* One action is one run-to-completion step of the browser event loop: an  *)
(* event handler or the continuation of an await, together with the React  *)
(* effects its state changes trigger.                                      *)
(***************************************************************************)
EXTENDS Integers, Sequences, FiniteSets, TLC

\* ---- bounds of the model ----
MaxEvents == 5
\* the delay of useDebounce in clock ticks, and the number of value changes
DelayTicks == 2
MaxChanges == 5
\* the longest source, in seconds
MaxDuration == 2
Duration == 1

\* ---- values ----
Lanes == {"export", "preview"}
Formats == {"mp4", "prores", "webm", "gif"}
ActiveStatus == {"processing", "preview_processing"}
TerminalStatus == {"completed", "preview_completed", "failed"}
NoError == ""

ActiveOf(lane) == IF lane = "export" THEN "processing" ELSE "preview_processing"
DoneOf(lane) == IF lane = "export" THEN "completed" ELSE "preview_completed"
Max(a, b) == IF a >= b THEN a ELSE b
Min(a, b) == IF a <= b THEN a ELSE b
\* JavaScript  a || b  on a string and on a number
OrElse(a, b) == IF a = NoError THEN b ELSE a
OrZero(n) == IF n = 0 THEN 0 ELSE n

\* ---- transforms ----
\* the logical canvas
logicalWidth == 1280
logicalHeight == 720
\* a scale is kept in hundredths (100 is the scale 1)
ScaleUnit == 100
\* width and height of the media a user can choose; the quotients of the
\* canvas size by them are exact
NoMedia == [width |-> 0, height |-> 0]
Media == {[width |-> 640, height |-> 360], [width |-> 640, height |-> 720],
          [width |-> 2560, height |-> 720]}
SourceMedia == [width |-> 640, height |-> 720]
BackgroundMedia == [width |-> 2560, height |-> 720]
\* useState initial value of foregroundTransform and backgroundTransform
DefaultTransform == [x |-> 0, y |-> 0, scale |-> ScaleUnit, width |-> 0, height |-> 0]

\* the placement of a layer of natural size w x h at scale s, centred
Centred(w, h, s) ==
    [x |-> (logicalWidth - (w * s) \div ScaleUnit) \div 2,
     y |-> (logicalHeight - (h * s) \div ScaleUnit) \div 2,
     scale |-> s, width |-> w, height |-> h]

\* variant: the foreground is placed like the background, covering the canvas
getInitialFgTransformCover(sourceWidth, sourceHeight) ==
    LET scaleX == (logicalWidth * ScaleUnit) \div sourceWidth
        scaleY == (logicalHeight * ScaleUnit) \div sourceHeight
    IN  Centred(sourceWidth, sourceHeight, Max(scaleX, scaleY))

getInitialFgTransform(sourceWidth, sourceHeight) ==
    LET scaleX == (logicalWidth * ScaleUnit) \div sourceWidth
        scaleY == (logicalHeight * ScaleUnit) \div sourceHeight
    IN  Centred(sourceWidth, sourceHeight, Min(scaleX, scaleY))

getInitialBgTransform(bgWidth, bgHeight) ==
    IF bgWidth = 0 \/ bgHeight = 0 THEN DefaultTransform
    ELSE LET scaleX == (logicalWidth * ScaleUnit) \div bgWidth
             scaleY == (logicalHeight * ScaleUnit) \div bgHeight
         IN  Centred(bgWidth, bgHeight, Max(scaleX, scaleY))

VARIABLES
    \* Previewer state
    jobId, sourceVideoFile, backgroundFile, isTransparentMode, exportFormat,
    isUploading, isReadyForPreview,
    exportState, exportProgress, exportError,
    previewGenState, previewProgress, isPreviewModeActive, lastActionRef,
    pollInterval,
    \* FileInput.handleFile calls awaiting getMediaDetails
    srcPending, bgPending,
    \* requests of the client that have not been settled yet
    uploads, starts, polls,
    \* number of events of the environment so far
    events,
    \* live preview: the debounced settings (a version number), the frame
    \* shown (the settings version it was rendered from, 0: none), the socket
    \* ws.current and the settings version its onopen closure captured
    settingsVer, previewImage, wsState, wsCaptured,
    \* the two directions of the WebSocket connection, oldest message first
    c2s, s2c,
    \* Live Preview Engine of the companion service: job bound by init, mailbox
    \* of pending updates, settings version of the render in flight (0: none)
    wsBound, wsPending, wsRendering,
    \* for the properties: last update sent on the connection, last settings
    \* version whose render ended without a frame, a render was superseded
    wsLastSent, wsDropped, wsSuperseded,
    \* for the properties: first message sent on the connection, settings
    \* version of the last error message received on it (0: none)
    wsFirst, wsLastError,
    \* for the properties: the lanes whose start request failed with no user
    \* action since
    startFailed,
    \* sourceInfo.duration (0: no source), the trim range of Previewer, and the
    \* state of Timeline (startTime, endTime, isDragging)
    sourceDuration, startTime, endTime, tlStart, tlEnd, isDragging,
    \* the eyedropper: isPickingColor, isAwaitingFrameForDropper, whether an
    \* EyeDropper is open; for the properties: the frame it was opened on and
    \* the payload versions sent with isPreviewingColorPick = true
    isPickingColor, isAwaitingFrameForDropper, dropperOpen, dropperFrame, pickVers,
    \* the uploads in flight are numbered in the order of their start: the
    \* number of the one started last (0 when none is in flight)
    uploadSeq,
    \* useDebounce: value, debouncedValue, the pending timeouts; for the
    \* properties: time since the last change of value, the values emitted
    value, debouncedValue, handlers, sinceChange, emitted,
    \* useCompanionStatus; for the properties: whether the check that
    \* finished last had failed
    companionStatus, isPolling, failureCountRef, checks, checkCount, lastFailed,
    \* for the properties: the session state of the Previewer that App removed
    \* when the status last became disconnected (<<>>: none was removed)
    sessionAtDisconnect,
    \* width and height of sourceInfo and backgroundInfo (NoMedia: null), the
    \* transforms of the two layers, the selected layer, the undo history
    sourceInfo, backgroundInfo, foregroundTransform, backgroundTransform,
    selectedShapeName, history, historyIndex, isTransforming,
    \* the gesture the pointer is in on the selected node: none, drag, resize
    gesture,
    \* companion service
    srvJob, srvStatus, srvProgress, srvError, srvArtifact, srvExit,
    srvProcs, srvPartial, srvFiles

fileVars == <<sourceVideoFile, backgroundFile, isTransparentMode, srcPending, bgPending>>
jobVars == <<jobId, isUploading, isReadyForPreview>>
laneVars == <<exportState, exportProgress, exportError, previewGenState,
              previewProgress, isPreviewModeActive, lastActionRef>>
netVars == <<uploads, starts, polls>>
srvVars == <<srvJob, srvStatus, srvProgress, srvError, srvArtifact, srvExit,
            srvProcs, srvPartial, srvFiles>>
connVars == <<wsState, wsCaptured, c2s, s2c, wsBound, wsPending, wsRendering,
             wsLastSent, wsDropped, wsSuperseded, wsFirst, wsLastError>>
pickVars == <<isPickingColor, isAwaitingFrameForDropper, dropperOpen, dropperFrame,
             pickVers>>
wsVars == <<settingsVer, previewImage, connVars, pickVars>>
seqVars == <<uploadSeq>>
trimVars == <<sourceDuration, startTime, endTime, tlStart, tlEnd, isDragging>>
healthVars == <<companionStatus, isPolling, failureCountRef, checks, checkCount,
               lastFailed, sessionAtDisconnect>>
debounceVars == <<value, debouncedValue, handlers, sinceChange, emitted>>
infoVars == <<sourceInfo, backgroundInfo>>
layerVars == <<foregroundTransform, backgroundTransform>>
historyVars == <<history, historyIndex>>
xformVars == <<infoVars, layerVars, selectedShapeName, historyVars, isTransforming,
              gesture>>
auxVars == <<healthVars, debounceVars, xformVars>>
vars == <<fileVars, exportFormat, jobVars, laneVars, pollInterval, netVars, events,
         wsVars, srvVars, auxVars, startFailed, seqVars, trimVars>>

Init ==
    /\ jobId = 0
    /\ sourceVideoFile = FALSE
    /\ backgroundFile = FALSE
    /\ isTransparentMode = FALSE
    /\ exportFormat = "mp4"
    /\ isUploading = FALSE
    /\ isReadyForPreview = FALSE
    /\ exportState = "idle"
    /\ exportProgress = 0
    /\ exportError = NoError
    /\ previewGenState = "idle"
    /\ previewProgress = 0
    /\ isPreviewModeActive = FALSE
    /\ lastActionRef = "null"
    /\ pollInterval = FALSE
    /\ srcPending = FALSE
    /\ bgPending = FALSE
    /\ uploads = {}
    /\ starts = {}
    /\ events = 0
    /\ polls = {}
    /\ settingsVer = 1
    /\ previewImage = 0
    /\ wsState = "none"
    /\ wsCaptured = 0
    /\ c2s = <<>>
    /\ s2c = <<>>
    /\ wsBound = 0
    /\ wsPending = <<>>
    /\ wsRendering = 0
    /\ wsLastSent = 0
    /\ wsDropped = 0
    /\ wsSuperseded = FALSE
    /\ wsFirst = [type |-> "none", val |-> 0]
    /\ wsLastError = 0
    /\ sourceDuration = 0
    /\ startTime = 0
    /\ endTime = 0
    /\ tlStart = 0
    /\ tlEnd = 0
    /\ isDragging = "null"
    /\ isPickingColor = FALSE
    /\ isAwaitingFrameForDropper = FALSE
    /\ dropperOpen = FALSE
    /\ dropperFrame = 0
    /\ pickVers = {}
    /\ startFailed = {}
    /\ uploadSeq = 0
    /\ value = 1
    /\ debouncedValue = 1
    /\ handlers = {[captured |-> 1, remaining |-> DelayTicks]}
    /\ sinceChange = 0
    /\ emitted = {}
    /\ companionStatus = "disconnected"
    /\ isPolling = TRUE
    /\ failureCountRef = 0
    /\ checks = {}
    /\ checkCount = 0
    /\ lastFailed = FALSE
    /\ sessionAtDisconnect = <<>>
    /\ sourceInfo = NoMedia
    /\ backgroundInfo = NoMedia
    /\ foregroundTransform = DefaultTransform
    /\ backgroundTransform = DefaultTransform
    /\ selectedShapeName = "null"
    /\ history = <<>>
    /\ historyIndex = -1
    /\ isTransforming = FALSE
    /\ gesture = "none"
    /\ srvJob = 0
    /\ srvStatus = "idle"
    /\ srvProgress = 0
    /\ srvError = NoError
    /\ srvArtifact = "none"
    /\ srvExit = "none"
    /\ srvProcs = {}
    /\ srvPartial = {}
    /\ srvFiles = {}

\* ---- Previewer: disabling logic ----
isProcessing == isUploading \/ previewGenState = "processing" \/ exportState = "processing"
arePostLoadControlsDisabled == ~isReadyForPreview \/ isProcessing \/ isPreviewModeActive
\* CollapsibleSection renders its children only when it is not disabled
LoadFilesShown == ~(isProcessing \/ isPreviewModeActive)
GeneratePreviewShown == ~(~isReadyForPreview \/ isProcessing)
ExportShown == ~arePostLoadControlsDisabled

\* An event of the environment: a user action, a timer firing, a failure of the
\* network or of a file, a reset.  MaxEvents bounds their number.
EnvEvent == events < MaxEvents /\ events' = events + 1

\* ---- Timeline: mounting and the effect on [duration] ----
\* Timeline is a child of the Export section, which renders its children only
\* while it is not disabled: when the section gets enabled Timeline mounts
\* with startTime 0 and endTime duration, when it gets disabled the state of
\* Timeline is gone.  While it stays mounted a new duration sets endTime only.
\* nd: the duration after the step.
TimelineEffect(nd) ==
    IF ~ExportShown'
    THEN tlStart' = 0 /\ tlEnd' = 0 /\ isDragging' = "null"
    ELSE IF ~ExportShown
         THEN tlStart' = 0 /\ tlEnd' = nd /\ isDragging' = "null"
         ELSE /\ tlStart' = tlStart
              /\ tlEnd' = IF nd # sourceDuration THEN nd ELSE tlEnd
              /\ isDragging' = isDragging

\* ---- Previewer: status polling effect, dependency part ----
\* Runs when previewGenState, exportState or jobId changed: the cleanup clears
\* the interval of the previous run (polls already sent keep running, their
\* clearInterval no longer names a live interval), then the guard decides
\* whether a new interval is set.
\* variant: the cleanup leaves a running interval in place
PollEffectKeepsInterval(nj, ne, np, basePolls, baseInterval) ==
    /\ pollInterval' = (baseInterval \/ (nj # 0 /\ (np = "processing" \/ ne = "processing")))
    /\ polls' = basePolls

PollEffect(nj, ne, np, basePolls, baseInterval) ==
    IF <<np, ne, nj>> # <<previewGenState, exportState, jobId>>
    THEN /\ pollInterval' = (nj # 0 /\ (np = "processing" \/ ne = "processing"))
         /\ polls' = {[p EXCEPT !.cur = FALSE] : p \in basePolls}
    ELSE /\ pollInterval' = baseInterval
         /\ polls' = basePolls


\* ---- Previewer: WebSocket effect, dependency part ----
\* Runs when isReadyForPreview or jobId changed: the cleanup closes the socket
\* of the previous run (nothing is delivered on a closed socket), then a new
\* socket is created if the session is ready.  The onopen closure keeps the
\* requestPreviewUpdate of this render, that is the settings of this moment.
WsEffect(nr, nj) ==
    IF <<nr, nj>> # <<isReadyForPreview, jobId>>
    THEN /\ wsState' = IF nr /\ nj # 0 THEN "connecting"
                       ELSE IF wsState = "none" THEN "none" ELSE "closed"
         /\ wsCaptured' = IF nr /\ nj # 0 THEN settingsVer ELSE 0
         /\ c2s' = <<>>
         /\ s2c' = <<>>
         /\ wsBound' = 0
         /\ wsPending' = <<>>
         /\ wsRendering' = 0
         /\ wsLastSent' = 0
         /\ wsDropped' = 0
         /\ wsSuperseded' = FALSE
         /\ wsFirst' = [type |-> "none", val |-> 0]
         /\ wsLastError' = 0
    ELSE UNCHANGED connVars

InitMessage(job) == [type |-> "init", val |-> job]
UpdateMessage(ver) == [type |-> "update", val |-> ver]

\* variant: the update is sent whatever the state of the socket
requestPreviewUpdateUnguarded(calls, ver) ==
    /\ c2s' = c2s \o [i \in 1..calls |-> UpdateMessage(ver)]
    /\ wsLastSent' = ver
    /\ wsFirst' = IF wsFirst.type = "none" THEN UpdateMessage(ver) ELSE wsFirst

\* requestPreviewUpdate called  calls  times in one step with settings ver
requestPreviewUpdate(calls, ver) ==
    IF wsState = "open" /\ jobId # 0
    THEN /\ c2s' = c2s \o [i \in 1..calls |-> UpdateMessage(ver)]
         /\ wsLastSent' = ver
         /\ wsFirst' = IF wsFirst.type = "none" THEN UpdateMessage(ver) ELSE wsFirst
    ELSE UNCHANGED <<c2s, wsLastSent, wsFirst>>

\* ---- Previewer: upload effect and uploadFiles up to its await ----
canStartSession(src, bg, transparent) == src /\ (transparent \/ bg)

\* variant: the selected background is attached whatever the mode
UploadFormAttachSelected(src, bg, transparent) ==
    [sourceVideo |-> src,
     sourceProperties |-> src,
     isTransparent |-> transparent,
     background |-> bg,
     backgroundProperties |-> bg]

UploadForm(src, bg, transparent) ==
    [sourceVideo |-> src,
     sourceProperties |-> src,
     isTransparent |-> transparent,
     background |-> (~transparent /\ bg),
     backgroundProperties |-> (~transparent /\ bg)]

\* The effect on [sourceInfo, backgroundInfo] places both layers and starts the
\* history with that pair; uploadFiles, started by the upload effect that runs
\* after it, calls resetStateForNewJob, which clears the selection and the
\* history.  si, bi: the new media; changed: the effect on the media runs;
\* upload: uploadFiles is called.
TransformEffect(si, bi, changed, upload) ==
    LET initialFg == getInitialFgTransform(si.width, si.height)
        initialBg == IF bi # NoMedia THEN getInitialBgTransform(bi.width, bi.height)
                     ELSE backgroundTransform
        placed == changed /\ si # NoMedia
    IN  /\ foregroundTransform' = IF placed THEN initialFg ELSE foregroundTransform
        /\ backgroundTransform' = IF placed THEN initialBg ELSE backgroundTransform
        /\ history' = IF upload THEN <<>>
                      ELSE IF placed THEN <<[fg |-> initialFg, bg |-> initialBg]>>
                      ELSE history
        /\ historyIndex' = IF upload THEN -1 ELSE IF placed THEN 0 ELSE historyIndex
        /\ selectedShapeName' = IF upload THEN "null" ELSE selectedShapeName
        \* the Stage is not rendered during an upload: a gesture on one of its
        \* nodes ends there without its end handler; isTransforming is not reset
        /\ gesture' = IF upload THEN "none" ELSE gesture
        /\ UNCHANGED isTransforming

\* resetStateForNewJob(); setIsUploading(true); fetch(POST /api/process)
\* ns, nb, nt: the values of the files and of the mode after the change that
\* triggered the effect.
UploadEffect(ns, nb, nt) ==
    IF canStartSession(ns, nb, nt)
    THEN /\ isReadyForPreview' = FALSE
         /\ jobId' = 0
         /\ exportState' = "idle"
         /\ exportProgress' = 0
         /\ exportError' = NoError
         /\ isPreviewModeActive' = FALSE
         /\ previewGenState' = "idle"
         /\ lastActionRef' = "null"
         /\ isUploading' = TRUE
         /\ uploads' = uploads \cup
               {[id |-> uploadSeq + 1, phase |-> "sent", job |-> 0,
                 form |-> UploadForm(ns, nb, nt), uiBackground |-> nb,
                 prevJob |-> jobId, prevReady |-> isReadyForPreview]}
         /\ uploadSeq' = uploadSeq + 1
         /\ previewImage' = 0
         /\ PollEffect(0, "idle", "idle", polls, pollInterval)
         /\ WsEffect(FALSE, 0)
         /\ UNCHANGED previewProgress
    ELSE UNCHANGED <<jobVars, laneVars, pollInterval, uploads, polls, previewImage,
                     connVars, seqVars>>

\* ---- FileInput ----
\* handleFile up to  await getMediaDetails(selectedFile)
HandleFileSource ==
    /\ EnvEvent
    /\ LoadFilesShown
    /\ ~srcPending
    /\ srcPending' = TRUE
    /\ UNCHANGED <<sourceVideoFile, backgroundFile, isTransparentMode, bgPending,
                   exportFormat, jobVars, laneVars, pollInterval, netVars, srvVars>>
    /\ UNCHANGED auxVars
    /\ UNCHANGED trimVars
    /\ UNCHANGED seqVars
    /\ startFailed' = {}
    /\ UNCHANGED wsVars

HandleFileBackground ==
    /\ EnvEvent
    /\ LoadFilesShown
    /\ ~isTransparentMode
    /\ ~bgPending
    /\ bgPending' = TRUE
    /\ UNCHANGED <<sourceVideoFile, backgroundFile, isTransparentMode, srcPending,
                   exportFormat, jobVars, laneVars, pollInterval, netVars, srvVars>>
    /\ UNCHANGED auxVars
    /\ UNCHANGED trimVars
    /\ UNCHANGED seqVars
    /\ startFailed' = {}
    /\ UNCHANGED wsVars

\* getMediaDetails resolved: onFileSelect(file, properties, url); d is the
\* duration of the file.  The effect on [sourceInfo, backgroundInfo] sets the
\* trim range to the whole source.
OnSourceSelect(d) ==
    /\ srcPending
    /\ srcPending' = FALSE
    /\ sourceVideoFile' = TRUE
    /\ UploadEffect(TRUE, backgroundFile, isTransparentMode)
    /\ UNCHANGED <<events, backgroundFile, isTransparentMode, bgPending, exportFormat,
                   starts, srvVars>>
    /\ sourceDuration' = d
    /\ startTime' = 0
    /\ endTime' = d
    /\ TimelineEffect(d)
    /\ sourceInfo' = SourceMedia
    /\ UNCHANGED backgroundInfo
    /\ TransformEffect(SourceMedia, backgroundInfo, TRUE,
                       canStartSession(TRUE, backgroundFile, isTransparentMode))
    /\ UNCHANGED <<healthVars, debounceVars>>
    /\ startFailed' = {}
    /\ UNCHANGED <<settingsVer, pickVars>>

OnBackgroundSelect ==
    /\ bgPending
    /\ bgPending' = FALSE
    /\ backgroundFile' = TRUE
    /\ UploadEffect(sourceVideoFile, TRUE, isTransparentMode)
    /\ UNCHANGED <<events, sourceVideoFile, isTransparentMode, srcPending, exportFormat,
                   starts, srvVars>>
    /\ startTime' = IF sourceVideoFile THEN 0 ELSE startTime
    /\ endTime' = IF sourceVideoFile THEN sourceDuration ELSE endTime
    /\ UNCHANGED sourceDuration
    /\ TimelineEffect(sourceDuration)
    /\ backgroundInfo' = BackgroundMedia
    /\ UNCHANGED sourceInfo
    /\ TransformEffect(sourceInfo, BackgroundMedia, TRUE,
                       canStartSession(sourceVideoFile, TRUE, isTransparentMode))
    /\ UNCHANGED <<healthVars, debounceVars>>
    /\ startFailed' = {}
    /\ UNCHANGED <<settingsVer, pickVars>>

\* getMediaDetails rejected: alert, nothing is selected
MediaDetailsFail ==
    /\ EnvEvent
    /\ srcPending \/ bgPending
    /\ \E which \in {"source", "background"} :
          /\ IF which = "source" THEN srcPending ELSE bgPending
          /\ srcPending' = (srcPending /\ which # "source")
          /\ bgPending' = (bgPending /\ which # "background")
    /\ UNCHANGED <<sourceVideoFile, backgroundFile, isTransparentMode,
                   exportFormat, jobVars, laneVars, pollInterval, netVars, srvVars>>
    /\ UNCHANGED auxVars
    /\ UNCHANGED trimVars
    /\ UNCHANGED seqVars
    /\ UNCHANGED startFailed
    /\ UNCHANGED wsVars

\* ---- Previewer: transparent-mode checkbox and effect ----
TransparentModeEffect(nt, fmt) == IF nt THEN "prores" ELSE fmt

ToggleTransparentMode ==
    /\ EnvEvent
    /\ LoadFilesShown
    /\ isTransparentMode' = ~isTransparentMode
    /\ exportFormat' = TransparentModeEffect(~isTransparentMode, exportFormat)
    /\ UploadEffect(sourceVideoFile, backgroundFile, ~isTransparentMode)
    /\ UNCHANGED <<sourceVideoFile, backgroundFile, srcPending, bgPending,
                   starts, srvVars>>
    /\ UNCHANGED <<sourceDuration, startTime, endTime>>
    /\ TimelineEffect(sourceDuration)
    /\ UNCHANGED infoVars
    /\ TransformEffect(sourceInfo, backgroundInfo, FALSE,
                       canStartSession(sourceVideoFile, backgroundFile, ~isTransparentMode))
    /\ UNCHANGED <<healthVars, debounceVars>>
    /\ startFailed' = {}
    /\ UNCHANGED <<settingsVer, pickVars>>

\* the format select of the Export section
SetExportFormat(f) ==
    /\ EnvEvent
    /\ ExportShown
    /\ ~isTransparentMode
    /\ f # exportFormat
    /\ exportFormat' = f
    /\ UNCHANGED <<fileVars, jobVars, laneVars, pollInterval, netVars, srvVars>>
    /\ UNCHANGED auxVars
    /\ UNCHANGED trimVars
    /\ UNCHANGED seqVars
    /\ startFailed' = {}
    /\ UNCHANGED wsVars

\* ---- uploadFiles after its await ----
UploadResolved(u) ==
    /\ u \in uploads
    /\ u.phase \in {"ok", "fail"}
    /\ uploads' = uploads \ {u}
    /\ isUploading' = FALSE
    /\ IF u.phase = "ok"
       THEN /\ jobId' = u.job
            /\ isReadyForPreview' = TRUE
            /\ PollEffect(u.job, exportState, previewGenState, polls, pollInterval)
            /\ WsEffect(TRUE, u.job)
       ELSE UNCHANGED <<jobId, isReadyForPreview, pollInterval, polls, connVars>>
    /\ uploadSeq' = IF uploads' = {} THEN 0 ELSE uploadSeq
    /\ UNCHANGED <<settingsVer, previewImage, pickVars>>
    /\ UNCHANGED <<events, fileVars, exportFormat, laneVars, starts,
                   srvVars>>
    /\ UNCHANGED <<sourceDuration, startTime, endTime>>
    /\ TimelineEffect(sourceDuration)
    /\ UNCHANGED auxVars
    /\ UNCHANGED startFailed

\* the request or its response is lost (companion not running, connection reset)
UploadNetFail(u) ==
    /\ EnvEvent
    /\ u \in uploads
    /\ u.phase \in {"sent", "ok"}
    /\ uploads' = (uploads \ {u}) \cup {[u EXCEPT !.phase = "fail"]}
    /\ UNCHANGED <<fileVars, exportFormat, jobVars, laneVars, pollInterval,
                   starts, polls, srvVars>>
    /\ UNCHANGED auxVars
    /\ UNCHANGED trimVars
    /\ UNCHANGED seqVars
    /\ UNCHANGED startFailed
    /\ UNCHANGED wsVars

\* ---- Previewer: starting a lane ----
ExportFormatSent(transparent, fmt) == IF transparent THEN "prores" ELSE fmt

\* variant: the selected format is sent as it is and the flag is left out
ExportSettingsAsSelected ==
    [format |-> exportFormat, transparent |-> FALSE,
     startTime |-> startTime, endTime |-> endTime]

\* exportSettings of handleExport (the fields the lanes depend on)
ExportSettings ==
    [format |-> ExportFormatSent(isTransparentMode, exportFormat),
     transparent |-> isTransparentMode,
     startTime |-> startTime, endTime |-> endTime]

\* previewSettings of handleProcessPreview
PreviewSettings ==
    [format |-> "none", transparent |-> isTransparentMode,
     startTime |-> startTime, endTime |-> endTime]

\* A start request.  code and error are the answer (code 0: none yet).  For the
\* properties below, uiTransparent and uiBackground record the mode and the
\* background selection at the moment of the click, and seen the job status
\* the service found when it handled the request.
StartRequest(lane, body) ==
    [id |-> events, lane |-> lane, job |-> jobId, phase |-> "sent",
     code |-> 0, error |-> NoError, seen |-> "none", body |-> body,
     uiTransparent |-> isTransparentMode, uiBackground |-> backgroundFile,
     uiDuration |-> sourceDuration]

\* "Export Video" (exportState idle) and "Try Again" (exportState failed)
HandleExport ==
    /\ ExportShown
    /\ exportState \in {"idle", "failed"}
    /\ jobId # 0
    /\ EnvEvent
    /\ lastActionRef' = "export"
    /\ exportState' = "processing"
    /\ exportProgress' = 0
    /\ exportError' = NoError
    /\ starts' = starts \cup {StartRequest("export", ExportSettings)}
    /\ PollEffect(jobId, "processing", previewGenState, polls, pollInterval)
    /\ UNCHANGED <<fileVars, exportFormat, jobVars, previewGenState, previewProgress,
                   isPreviewModeActive, uploads, srvVars>>
    /\ UNCHANGED <<sourceDuration, startTime, endTime>>
    /\ TimelineEffect(sourceDuration)
    /\ UNCHANGED auxVars
    /\ UNCHANGED seqVars
    /\ startFailed' = {}
    /\ UNCHANGED wsVars

\* "Generate Preview" (previewGenState idle) and "Try Again" (failed)
HandleProcessPreview ==
    /\ GeneratePreviewShown
    /\ ~isPreviewModeActive
    /\ previewGenState \in {"idle", "failed"}
    /\ previewGenState = "idle" => ~arePostLoadControlsDisabled
    /\ jobId # 0
    /\ EnvEvent
    /\ lastActionRef' = "preview"
    /\ previewGenState' = "processing"
    /\ previewProgress' = 0
    /\ starts' = starts \cup {StartRequest("preview", PreviewSettings)}
    /\ PollEffect(jobId, exportState, "processing", polls, pollInterval)
    /\ UNCHANGED <<fileVars, exportFormat, jobVars, exportState, exportProgress,
                   exportError, isPreviewModeActive, uploads, srvVars>>
    /\ UNCHANGED <<sourceDuration, startTime, endTime>>
    /\ TimelineEffect(sourceDuration)
    /\ UNCHANGED auxVars
    /\ UNCHANGED seqVars
    /\ startFailed' = {}
    /\ UNCHANGED wsVars

\* handleExport / handleProcessPreview after the await
StartResolved(s) ==
    /\ s \in starts
    /\ s.phase \in {"ok", "fail"}
    /\ starts' = starts \ {s}
    /\ startFailed' = IF s.phase = "ok" THEN startFailed ELSE startFailed \cup {s.lane}
    /\ IF s.phase = "ok"
       THEN UNCHANGED <<exportState, exportError, previewGenState, pollInterval, polls>>
       ELSE IF s.lane = "export"
            THEN /\ exportState' = "failed"
                 /\ exportError' = OrElse(s.error, "Failed to start export.")
                 /\ PollEffect(jobId, "failed", previewGenState, polls, pollInterval)
                 /\ UNCHANGED previewGenState
            ELSE /\ previewGenState' = "failed"
                 /\ PollEffect(jobId, exportState, "failed", polls, pollInterval)
                 /\ UNCHANGED <<exportState, exportError>>
    /\ UNCHANGED <<events, fileVars, exportFormat, jobVars, exportProgress, previewProgress,
                   isPreviewModeActive, lastActionRef, uploads,
                   srvVars>>
    /\ UNCHANGED <<sourceDuration, startTime, endTime>>
    /\ TimelineEffect(sourceDuration)
    /\ UNCHANGED auxVars
    /\ UNCHANGED seqVars
    /\ UNCHANGED wsVars

StartNetFail(s) ==
    /\ EnvEvent
    /\ s \in starts
    /\ s.phase \in {"sent", "ok"}
    /\ starts' = (starts \ {s}) \cup
                    {[s EXCEPT !.phase = "fail", !.error = "Failed to fetch"]}
    /\ UNCHANGED <<fileVars, exportFormat, jobVars, laneVars, pollInterval,
                   uploads, polls, srvVars>>
    /\ UNCHANGED auxVars
    /\ UNCHANGED trimVars
    /\ UNCHANGED seqVars
    /\ UNCHANGED startFailed
    /\ UNCHANGED wsVars

\* "Start New Export"
resetExport ==
    /\ EnvEvent
    /\ ExportShown
    /\ exportState = "completed"
    /\ exportState' = "idle"
    /\ exportProgress' = 0
    /\ exportError' = NoError
    /\ PollEffect(jobId, "idle", previewGenState, polls, pollInterval)
    /\ UNCHANGED <<fileVars, exportFormat, jobVars, previewGenState, previewProgress,
                   isPreviewModeActive, lastActionRef, uploads,
                   starts, srvVars>>
    /\ UNCHANGED <<sourceDuration, startTime, endTime>>
    /\ TimelineEffect(sourceDuration)
    /\ UNCHANGED auxVars
    /\ UNCHANGED seqVars
    /\ startFailed' = {}
    /\ UNCHANGED wsVars

\* "Back to Editor"
handleExitPreviewMode ==
    /\ EnvEvent
    /\ GeneratePreviewShown
    /\ isPreviewModeActive
    /\ isPreviewModeActive' = FALSE
    /\ requestPreviewUpdate(1, settingsVer)
    /\ UNCHANGED <<settingsVer, previewImage, wsState, wsCaptured, s2c, wsBound,
                   wsPending, wsRendering, wsDropped, wsSuperseded, wsLastError, pickVars>>
    /\ UNCHANGED <<fileVars, exportFormat, jobVars, exportState, exportProgress,
                   exportError, previewGenState, previewProgress, lastActionRef,
                   pollInterval, netVars, srvVars>>
    /\ UNCHANGED <<sourceDuration, startTime, endTime>>
    /\ TimelineEffect(sourceDuration)
    /\ UNCHANGED auxVars
    /\ UNCHANGED seqVars
    /\ startFailed' = {}

\* ---- Previewer: status polling ----
\* one firing of setInterval: fetch(GET /api/status/{jobId})
PollTick ==
    /\ EnvEvent
    /\ pollInterval
    /\ polls' = polls \cup
          {[job |-> jobId, cur |-> TRUE, phase |-> "sent",
            status |-> "none", progress |-> 0, error |-> NoError]}
    /\ UNCHANGED <<fileVars, exportFormat, jobVars, laneVars, pollInterval,
                   uploads, starts, srvVars>>
    /\ UNCHANGED auxVars
    /\ UNCHANGED trimVars
    /\ UNCHANGED seqVars
    /\ UNCHANGED startFailed
    /\ UNCHANGED wsVars

PollNetFail(p) ==
    /\ EnvEvent
    /\ p \in polls
    /\ p.phase \in {"sent", "ok"}
    /\ polls' = (polls \ {p}) \cup
          {[p EXCEPT !.phase = "fail", !.status = "none", !.progress = 0,
                     !.error = NoError]}
    /\ UNCHANGED <<fileVars, exportFormat, jobVars, laneVars, pollInterval,
                   uploads, starts, srvVars>>
    /\ UNCHANGED auxVars
    /\ UNCHANGED trimVars
    /\ UNCHANGED seqVars
    /\ UNCHANGED startFailed
    /\ UNCHANGED wsVars

\* the interval callback after its awaits
PollResolved(p) ==
    /\ p \in polls
    /\ p.phase \in {"ok", "fail"}
    /\ LET rest == polls \ {p}
           failed == p.phase = "fail" \/ p.status = "failed"
           cleared == IF p.cur THEN FALSE ELSE pollInterval
           msg == IF p.phase = "fail" THEN "Could not get status from server."
                  ELSE OrElse(p.error, "Unknown error.")
       IN
       IF p.phase = "ok" /\ p.status = "completed" THEN
            /\ exportState' = "completed"
            /\ exportProgress' = 100
            /\ PollEffect(jobId, "completed", previewGenState, rest, cleared)
            /\ UNCHANGED <<exportError, previewGenState, previewProgress,
                           isPreviewModeActive>>
       ELSE IF p.phase = "ok" /\ p.status = "preview_completed" THEN
            /\ previewGenState' = "idle"
            /\ previewProgress' = 100
            /\ isPreviewModeActive' = TRUE
            /\ PollEffect(jobId, exportState, "idle", rest, cleared)
            /\ UNCHANGED <<exportState, exportProgress, exportError>>
       ELSE IF failed THEN
            /\ exportState' = IF lastActionRef = "export" THEN "failed" ELSE exportState
            /\ exportError' = IF lastActionRef = "export" THEN msg ELSE exportError
            /\ previewGenState' = IF lastActionRef = "preview" THEN "failed"
                                  ELSE previewGenState
            /\ PollEffect(jobId, exportState', previewGenState', rest, cleared)
            /\ UNCHANGED <<exportProgress, previewProgress, isPreviewModeActive>>
       ELSE IF p.status \in ActiveStatus THEN
            /\ exportProgress' = IF lastActionRef = "export"
                                 THEN OrZero(p.progress) ELSE exportProgress
            /\ previewProgress' = IF lastActionRef = "preview"
                                  THEN OrZero(p.progress) ELSE previewProgress
            /\ polls' = rest
            /\ UNCHANGED <<exportState, exportError, previewGenState,
                           isPreviewModeActive, pollInterval>>
       ELSE \* any other status (idle): no branch of the callback applies
            /\ polls' = rest
            /\ UNCHANGED <<exportState, exportProgress, exportError, previewGenState,
                           previewProgress, isPreviewModeActive, pollInterval>>
    /\ UNCHANGED <<events, fileVars, exportFormat, jobVars, lastActionRef, uploads,
                   starts, srvVars>>
    /\ UNCHANGED <<sourceDuration, startTime, endTime>>
    /\ TimelineEffect(sourceDuration)
    /\ UNCHANGED auxVars
    /\ UNCHANGED seqVars
    /\ UNCHANGED startFailed
    /\ UNCHANGED wsVars

\* ---- Previewer: live preview over the WebSocket ----
restVars == <<fileVars, exportFormat, jobVars, laneVars, pollInterval, netVars, srvVars,
             auxVars, startFailed, seqVars, trimVars>>

\* ws.current.onopen: send init, then requestPreviewUpdate() of the closure
WsOpen ==
    /\ wsState = "connecting"
    /\ wsState' = "open"
    /\ c2s' = <<InitMessage(jobId), UpdateMessage(wsCaptured)>>
    /\ wsLastSent' = wsCaptured
    /\ wsFirst' = IF wsFirst.type = "none" THEN InitMessage(jobId) ELSE wsFirst
    /\ UNCHANGED <<events, restVars, settingsVer, previewImage, wsCaptured, s2c,
                   wsBound, wsPending, wsRendering, wsDropped, wsSuperseded, wsLastError,
                   pickVars>>

\* The payload of the update message changes (settingsVer numbers the
\* payloads; pick is its isPreviewingColorPick).  requestPreviewUpdate is a new
\* function, so the two effects that depend on it both call it; the second
\* one only while isTransforming is false.
PayloadChange(pick) ==
    /\ settingsVer' = settingsVer + 1
    /\ pickVers' = IF pick THEN pickVers \cup {settingsVer + 1} ELSE pickVers
    /\ requestPreviewUpdate(IF isTransforming THEN 1 ELSE 2, settingsVer + 1)

\* The debounced settings take a new value (a control of the keying section
\* was moved and 200 ms passed).
ChangeSettings ==
    /\ EnvEvent
    /\ ~arePostLoadControlsDisabled
    /\ ~dropperOpen
    /\ PayloadChange(isPickingColor)
    /\ UNCHANGED <<restVars, previewImage, wsState, wsCaptured, s2c, wsBound,
                   wsPending, wsRendering, wsDropped, wsSuperseded, wsLastError,
                   isPickingColor, isAwaitingFrameForDropper, dropperOpen,
                   dropperFrame>>

\* "Pick color from preview"
handleColorPick ==
    /\ EnvEvent
    /\ ~arePostLoadControlsDisabled
    /\ ~dropperOpen
    /\ previewImage' = 0
    /\ isAwaitingFrameForDropper' = TRUE
    /\ isPickingColor' = TRUE
    /\ IF isPickingColor
       THEN UNCHANGED <<settingsVer, pickVers, c2s, wsLastSent, wsFirst>>
       ELSE PayloadChange(TRUE)
    /\ UNCHANGED <<restVars, wsState, wsCaptured, s2c, wsBound, wsPending, wsRendering,
                   wsDropped, wsSuperseded, wsLastError, dropperOpen, dropperFrame>>

\* the window gets the focus: handleFocus
HandleFocus ==
    /\ EnvEvent
    /\ isPickingColor
    /\ isPickingColor' = FALSE
    /\ PayloadChange(FALSE)
    /\ UNCHANGED <<restVars, previewImage, wsState, wsCaptured, s2c, wsBound,
                   wsPending, wsRendering, wsDropped, wsSuperseded, wsLastError,
                   isAwaitingFrameForDropper, dropperOpen, dropperFrame>>

\* finally-branch of openDropper
DropperFinally(changed) ==
    /\ isAwaitingFrameForDropper' = FALSE
    /\ isPickingColor' = FALSE
    /\ IF changed \/ isPickingColor
       THEN PayloadChange(FALSE)
       ELSE UNCHANGED <<settingsVer, pickVers, c2s, wsLastSent, wsFirst>>

\* eyeDropper.open() settles: a colour was picked (keyColor changes) or the
\* user cancelled
DropperClosed(picked) ==
    /\ EnvEvent
    /\ dropperOpen
    /\ dropperOpen' = FALSE
    /\ DropperFinally(picked)
    /\ UNCHANGED <<restVars, previewImage, wsState, wsCaptured, s2c, wsBound,
                   wsPending, wsRendering, wsDropped, wsSuperseded, wsLastError,
                   dropperFrame>>

\* variant: an error message clears the frame shown
OnMessageImageKept(m, image) == image

OnMessageImageCleared(m, image) == IF m.type = "preview_frame" THEN m.val ELSE 0

\* ws.current.onmessage: the frame shown after message m
OnMessageImage(m, image) == IF m.type = "preview_frame" THEN m.val ELSE image

\* The image of a new frame loads (konvaFgImage changes) and the eyedropper
\* effect runs: while a frame is awaited it opens an EyeDropper on that frame;
\* open() is rejected when one is already open, and the finally-branch runs.
WsOnMessage ==
    /\ wsState = "open"
    /\ s2c # <<>>
    /\ s2c' = Tail(s2c)
    /\ previewImage' = OnMessageImage(Head(s2c), previewImage)
    /\ wsLastError' = IF Head(s2c).type = "error" THEN Head(s2c).val ELSE wsLastError
    /\ IF isAwaitingFrameForDropper /\ previewImage' # previewImage
       THEN IF dropperOpen
            THEN DropperFinally(FALSE) /\ UNCHANGED <<dropperOpen, dropperFrame>>
            ELSE /\ dropperOpen' = TRUE
                 /\ dropperFrame' = previewImage'
                 /\ UNCHANGED <<settingsVer, c2s, wsLastSent, wsFirst, isPickingColor,
                                isAwaitingFrameForDropper, pickVers>>
       ELSE UNCHANGED <<settingsVer, c2s, wsLastSent, wsFirst, pickVars>>
    /\ UNCHANGED <<events, restVars, wsState, wsCaptured, wsBound,
                   wsPending, wsRendering, wsDropped, wsSuperseded>>

\* ---- companion service: Live Preview Engine ----
\* variant: updates are queued behind the pending one
MailboxQueue(box, ver) == Append(box, ver)

\* single-slot mailbox: a new update overwrites the pending request
MailboxPut(box, ver) == <<ver>>

\* a message of the client arrives: init binds the connection to the job, an
\* update goes to the mailbox and supersedes the render in flight
WsSrvReceive ==
    /\ wsState = "open"
    /\ c2s # <<>>
    /\ c2s' = Tail(c2s)
    /\ IF Head(c2s).type = "init"
       THEN /\ wsBound' = Head(c2s).val
            /\ UNCHANGED <<wsPending, wsRendering, wsSuperseded>>
       ELSE /\ wsPending' = MailboxPut(wsPending, Head(c2s).val)
            /\ wsRendering' = 0
            /\ wsSuperseded' = (wsSuperseded \/ wsRendering # 0)
            /\ UNCHANGED wsBound
    /\ UNCHANGED <<events, restVars, settingsVer, previewImage, wsState, wsCaptured,
                   s2c, wsLastSent, wsDropped, wsFirst, wsLastError, pickVars>>

\* the render loop takes the pending request
WsSrvRenderStart ==
    /\ wsPending # <<>>
    /\ wsRendering = 0
    /\ wsBound # 0
    /\ wsRendering' = Head(wsPending)
    /\ wsPending' = Tail(wsPending)
    /\ UNCHANGED <<events, restVars, settingsVer, previewImage, wsState, wsCaptured,
                   c2s, s2c, wsBound, wsLastSent, wsDropped, wsSuperseded, wsFirst,
                   wsLastError, pickVars>>

\* the render ends: a frame, a decode error (protocol error message) or a
\* timeout (dropped frame, nothing is sent)
RenderOutcomes == {"frame", "error", "timeout"}

WsSrvRenderDone(outcome) ==
    /\ wsRendering # 0
    /\ wsRendering' = 0
    /\ s2c' = IF outcome = "frame"
              THEN Append(s2c, [type |-> "preview_frame", val |-> wsRendering])
              ELSE IF outcome = "error"
              THEN Append(s2c, [type |-> "error", val |-> wsRendering])
              ELSE s2c
    /\ wsDropped' = IF outcome = "frame" THEN wsDropped ELSE wsRendering
    /\ UNCHANGED <<events, restVars, settingsVer, previewImage, wsState, wsCaptured,
                   c2s, wsBound, wsPending, wsLastSent, wsSuperseded, wsFirst,
                   wsLastError, pickVars>>

\* ---- companion service: Session Store and Job Controller ----
\* required files: source always, background unless transparent mode
FormValid(form) == form.sourceVideo /\ (form.isTransparent \/ form.background)

\* progress = elapsed / (trimEnd - trimStart) as a percentage, clamped to [0,100)
ProgressOf(elapsed) == Max(0, Min(99, (elapsed * 100) \div Duration))

\* variant: cancellation leaves the encoding processes running
TerminateProcsNone(procs) == procs

\* Cancellation: the encoding processes of the job are terminated and their
\* partial output is discarded.  The result is the set of processes left.
TerminateProcs(procs) == {}

\* POST /api/process accepted: create(sourceFile, backgroundFile?, properties).
\* A lane still running for the previous job is terminated first; only then
\* are the previous job's files deleted (single active job per client).
SrvCreateState(newJob) ==
    /\ srvProcs' = TerminateProcs(srvProcs)
    /\ srvPartial' = {pl \in srvPartial : \E pr \in srvProcs' : pr.lane = pl}
    /\ srvFiles' = {newJob}
    /\ srvJob' = newJob
    /\ srvStatus' = "idle"
    /\ srvProgress' = 0
    /\ srvError' = NoError
    /\ srvArtifact' = "none"
    /\ srvExit' = IF srvProcs # {} THEN "cancelled" ELSE "none"

SrvCreate(u) ==
    /\ u \in uploads
    /\ u.phase = "sent"
    /\ FormValid(u.form)
    /\ SrvCreateState(srvJob + 1)
    /\ uploads' = (uploads \ {u}) \cup {[u EXCEPT !.phase = "ok", !.job = srvJob + 1]}
    /\ UNCHANGED <<events, fileVars, exportFormat, jobVars, laneVars, pollInterval,
                   starts, polls>>
    /\ UNCHANGED auxVars
    /\ UNCHANGED trimVars
    /\ UNCHANGED seqVars
    /\ UNCHANGED startFailed
    /\ UNCHANGED wsVars

\* ValidationError (missing or invalid upload): 4xx, session unaffected
SrvRejectUpload(u) ==
    /\ EnvEvent
    /\ u \in uploads
    /\ u.phase = "sent"
    /\ uploads' = (uploads \ {u}) \cup {[u EXCEPT !.phase = "fail"]}
    /\ UNCHANGED <<fileVars, exportFormat, jobVars, laneVars, pollInterval,
                   starts, polls, srvVars>>
    /\ UNCHANGED auxVars
    /\ UNCHANGED trimVars
    /\ UNCHANGED seqVars
    /\ UNCHANGED startFailed
    /\ UNCHANGED wsVars

\* variant: only a second start of the same lane is rejected
StartCodeSameLane(job, lane, status) ==
    IF srvJob = 0 \/ job # srvJob THEN 404
    ELSE IF status = ActiveOf(lane) THEN 409
    ELSE 200

\* variant: a lane starts from idle only, a terminal state is never left
StartCodeIdleOnly(job, lane, status) ==
    IF srvJob = 0 \/ job # srvJob THEN 404
    ELSE IF status # "idle" THEN 409
    ELSE 200

\* the answer to POST /api/export/{job} and POST /api/process-preview/{job}:
\* NotFound for an unknown job, Conflict while a lane of the job is active
StartCode(job, lane, status) ==
    IF srvJob = 0 \/ job # srvJob THEN 404
    ELSE IF status \in ActiveStatus THEN 409
    ELSE 200

StartError(code) ==
    IF code = 409 THEN "Conflict" ELSE IF code = 404 THEN "NotFound" ELSE NoError

\* the per-job state flag is checked and set in one step, then the one
\* encoding process of the lane is launched
SrvStartLane(s) ==
    /\ s \in starts
    /\ s.phase = "sent"
    /\ LET code == StartCode(s.job, s.lane, srvStatus) IN
       /\ starts' = (starts \ {s}) \cup
             {[s EXCEPT !.phase = IF code = 200 THEN "ok" ELSE "fail",
                        !.code = code, !.error = StartError(code),
                        !.seen = IF code = 404 THEN "unknown" ELSE srvStatus]}
       /\ IF code = 200
          THEN /\ srvStatus' = ActiveOf(s.lane)
               /\ srvProgress' = 0
               /\ srvError' = NoError
               /\ srvArtifact' = "none"
               /\ srvExit' = "none"
               /\ srvProcs' = srvProcs \cup {[lane |-> s.lane, job |-> srvJob]}
               /\ srvPartial' = srvPartial \cup {s.lane}
               /\ UNCHANGED <<srvJob, srvFiles>>
          ELSE UNCHANGED srvVars
    /\ UNCHANGED <<events, fileVars, exportFormat, jobVars, laneVars, pollInterval,
                   uploads, polls>>
    /\ UNCHANGED auxVars
    /\ UNCHANGED trimVars
    /\ UNCHANGED seqVars
    /\ UNCHANGED startFailed
    /\ UNCHANGED wsVars

\* setProgress from a time-elapsed marker of the encoder's progress stream
\* (the markers of a multi-pass encode are not monotone; the stored value is)
SrvProgressValue(old, elapsed) == Max(old, ProgressOf(elapsed))

SrvProgress(pr, elapsed) ==
    /\ pr \in srvProcs
    /\ srvProgress' = SrvProgressValue(srvProgress, elapsed)
    /\ srvProgress' # srvProgress
    /\ UNCHANGED <<events, fileVars, exportFormat, jobVars, laneVars, pollInterval, netVars,
                   srvJob, srvStatus, srvError, srvArtifact, srvExit, srvProcs,
                   srvPartial, srvFiles>>
    /\ UNCHANGED auxVars
    /\ UNCHANGED trimVars
    /\ UNCHANGED seqVars
    /\ UNCHANGED startFailed
    /\ UNCHANGED wsVars

\* variant: a progress stream that cannot be parsed counts as success
ExitStatusParseOk(lane, exit) ==
    IF exit \in {"zero", "parse"} THEN DoneOf(lane) ELSE "failed"

\* variant: an unexpected internal fault leaves the status as it is
ExitStatusFaultStuck(lane, exit) ==
    IF exit = "zero" THEN DoneOf(lane)
    ELSE IF exit = "fault" THEN ActiveOf(lane)
    ELSE "failed"

\* the encoding process has exited; exit is "zero", "nonzero", "parse"
\* (progress stream could not be parsed) or "fault" (unexpected internal fault).
\* srvExit keeps how the last encoding process of the job ended ("cancelled":
\* terminated by a reset or a new upload).
ExitStatus(lane, exit) == IF exit = "zero" THEN DoneOf(lane) ELSE "failed"

SrvProcExit(pr, exit) ==
    /\ pr \in srvProcs
    /\ srvProcs' = srvProcs \ {pr}
    /\ srvPartial' = srvPartial \ {pr.lane}
    /\ srvExit' = exit
    /\ srvStatus' = ExitStatus(pr.lane, exit)
    /\ srvProgress' = IF exit = "zero" THEN 100 ELSE srvProgress
    /\ srvError' = IF exit = "zero" THEN NoError ELSE "diagnostic"
    /\ srvArtifact' = IF exit = "zero" THEN pr.lane ELSE "none"
    /\ UNCHANGED <<events, fileVars, exportFormat, jobVars, laneVars, pollInterval, netVars,
                   srvJob, srvFiles>>
    /\ UNCHANGED auxVars
    /\ UNCHANGED trimVars
    /\ UNCHANGED seqVars
    /\ UNCHANGED startFailed
    /\ UNCHANGED wsVars

\* reset(jobId): terminate the lane, discard partial output, return to idle,
\* clear the result
SrvReset ==
    /\ EnvEvent
    /\ srvJob # 0
    /\ srvStatus # "idle"
    /\ srvProcs' = TerminateProcs(srvProcs)
    /\ srvPartial' = {pl \in srvPartial : \E pr \in srvProcs' : pr.lane = pl}
    /\ srvStatus' = "idle"
    /\ srvProgress' = 0
    /\ srvError' = NoError
    /\ srvArtifact' = "none"
    /\ srvExit' = IF srvProcs # {} THEN "cancelled" ELSE "none"
    /\ UNCHANGED <<fileVars, exportFormat, jobVars, laneVars, pollInterval, netVars,
                   srvJob, srvFiles>>
    /\ UNCHANGED auxVars
    /\ UNCHANGED trimVars
    /\ UNCHANGED seqVars
    /\ UNCHANGED startFailed
    /\ UNCHANGED wsVars

\* GET /api/status/{job}
SrvStatus(p) ==
    /\ p \in polls
    /\ p.phase = "sent"
    /\ polls' = (polls \ {p}) \cup
          {IF srvJob # 0 /\ p.job = srvJob
           THEN [p EXCEPT !.phase = "ok", !.status = srvStatus,
                          !.progress = srvProgress, !.error = srvError]
           ELSE [p EXCEPT !.phase = "fail"]}
    /\ UNCHANGED <<events, fileVars, exportFormat, jobVars, laneVars, pollInterval,
                   uploads, starts, srvVars>>
    /\ UNCHANGED auxVars
    /\ UNCHANGED trimVars
    /\ UNCHANGED seqVars
    /\ UNCHANGED startFailed
    /\ UNCHANGED wsVars

\* ---- the system ----
Exits == {"zero", "nonzero", "parse", "fault"}

Next ==
    \/ HandleFileSource
    \/ HandleFileBackground
    \/ OnSourceSelect(Duration)
    \/ OnBackgroundSelect
    \/ MediaDetailsFail
    \/ ToggleTransparentMode
    \/ \E f \in Formats : SetExportFormat(f)
    \/ HandleExport
    \/ HandleProcessPreview
    \/ resetExport
    \/ handleExitPreviewMode
    \/ PollTick
    \/ \E u \in uploads : UploadResolved(u)
    \/ \E s \in starts : StartResolved(s)
    \/ \E p \in polls : PollResolved(p)
    \/ \E u \in uploads : UploadNetFail(u)
    \/ \E s \in starts : StartNetFail(s)
    \/ \E p \in polls : PollNetFail(p)
    \/ \E u \in uploads : SrvCreate(u)
    \/ \E u \in uploads : SrvRejectUpload(u)
    \/ \E s \in starts : SrvStartLane(s)
    \/ \E pr \in srvProcs, e \in 0..Duration : SrvProgress(pr, e)
    \/ \E pr \in srvProcs, x \in Exits : SrvProcExit(pr, x)
    \/ SrvReset
    \/ \E p \in polls : SrvStatus(p)

Spec == Init /\ [][Next]_vars

\* ---- useCompanionStatus: health polling of the companion ----
MaxChecks == 4
FAILURE_THRESHOLD == 2

\* what a health request can come back with: a response (HTTP-OK or not, with
\* a body whose status is 'ok', something else, or that is not JSON), a
\* network error, or the abort of the request timeout
HealthOutcomes ==
    {[kind |-> "response", ok |-> o, body |-> b] :
        o \in BOOLEAN, b \in {"ok", "other", "invalid"}}
    \cup {[kind |-> k, ok |-> FALSE, body |-> "invalid"] : k \in {"error", "abort"}}
NoOutcome == [kind |-> "none", ok |-> FALSE, body |-> "invalid"]

\* variant: any HTTP-OK response counts
HealthOkAnyBody(o) == o.kind = "response" /\ o.ok

\* response.ok && (await response.json()).status === 'ok'
HealthOk(o) == o.kind = "response" /\ o.ok /\ o.body = "ok"

otherVars == <<fileVars, exportFormat, jobVars, laneVars, pollInterval, netVars, events,
               wsVars, srvVars, startFailed, seqVars, trimVars, xformVars>>
mainVars == <<otherVars, healthVars>>

\* checkStatus up to the fetch (called on mount and by the interval)
checkStatus ==
    /\ checkCount < MaxChecks
    /\ checkCount' = checkCount + 1
    /\ isPolling' = TRUE
    /\ checks' = checks \cup {[id |-> checkCount + 1, phase |-> "sent",
                               outcome |-> NoOutcome]}
    /\ UNCHANGED <<companionStatus, failureCountRef, lastFailed, sessionAtDisconnect,
                   otherVars, debounceVars>>

\* the request comes back, fails or is aborted
HealthOutcome(k, o) ==
    /\ k \in checks /\ k.phase = "sent"
    /\ checks' = (checks \ {k}) \cup {[k EXCEPT !.phase = "done", !.outcome = o]}
    /\ UNCHANGED <<companionStatus, isPolling, failureCountRef, checkCount, lastFailed,
                   sessionAtDisconnect,
                   otherVars, debounceVars>>

\* ---- App: Previewer is rendered unless the status is disconnected ----
\* the session state of the Previewer: the job, the key settings, the
\* transforms, the trim range and the export state
Session == <<jobId, settingsVer, foregroundTransform, backgroundTransform, startTime,
            endTime, exportState>>

previewerVars == <<fileVars, exportFormat, jobVars, laneVars, pollInterval, netVars,
                   wsVars, startFailed, seqVars, trimVars, xformVars>>

\* The Previewer is removed from the tree: its state is dropped, the cleanups
\* of its effects clear the polling interval and close the socket, and the
\* responses to its requests reach no component.  The next Previewer starts
\* from the initial values of its useState and useRef calls.
PreviewerUnmount ==
    /\ jobId' = 0
    /\ sourceVideoFile' = FALSE
    /\ backgroundFile' = FALSE
    /\ isTransparentMode' = FALSE
    /\ srcPending' = FALSE
    /\ bgPending' = FALSE
    /\ exportFormat' = "mp4"
    /\ isUploading' = FALSE
    /\ isReadyForPreview' = FALSE
    /\ exportState' = "idle"
    /\ exportProgress' = 0
    /\ exportError' = NoError
    /\ previewGenState' = "idle"
    /\ previewProgress' = 0
    /\ isPreviewModeActive' = FALSE
    /\ lastActionRef' = "null"
    /\ pollInterval' = FALSE
    /\ uploads' = {}
    /\ starts' = {}
    /\ polls' = {}
    /\ uploadSeq' = 0
    /\ settingsVer' = 1
    /\ previewImage' = 0
    /\ wsState' = "none"
    /\ wsCaptured' = 0
    /\ c2s' = <<>>
    /\ s2c' = <<>>
    /\ wsBound' = 0
    /\ wsPending' = <<>>
    /\ wsRendering' = 0
    /\ wsLastSent' = 0
    /\ wsDropped' = 0
    /\ wsSuperseded' = FALSE
    /\ wsFirst' = [type |-> "none", val |-> 0]
    /\ wsLastError' = 0
    /\ sourceDuration' = 0
    /\ startTime' = 0
    /\ endTime' = 0
    /\ tlStart' = 0
    /\ tlEnd' = 0
    /\ isDragging' = "null"
    /\ isPickingColor' = FALSE
    /\ isAwaitingFrameForDropper' = FALSE
    /\ dropperOpen' = FALSE
    /\ dropperFrame' = 0
    /\ pickVers' = {}
    /\ startFailed' = {}
    /\ sourceInfo' = NoMedia
    /\ backgroundInfo' = NoMedia
    /\ foregroundTransform' = DefaultTransform
    /\ backgroundTransform' = DefaultTransform
    /\ selectedShapeName' = "null"
    /\ history' = <<>>
    /\ historyIndex' = -1
    /\ isTransforming' = FALSE
    /\ gesture' = "none"

\* variant: App keeps the Previewer in the tree whatever the status
AppRenderKeepMounted(newStatus) ==
    UNCHANGED <<previewerVars, sessionAtDisconnect>>

\* App renders with the new status: ConnectionStatus replaces the Previewer
\* when the status becomes disconnected
AppRender(newStatus) ==
    IF companionStatus = "connected" /\ newStatus = "disconnected"
    THEN PreviewerUnmount /\ sessionAtDisconnect' = Session
    ELSE UNCHANGED <<previewerVars, sessionAtDisconnect>>

\* variant: a successful check does not reset the failure counter
checkStatusResolvedNoReset(k) ==
    /\ k \in checks /\ k.phase = "done"
    /\ checks' = checks \ {k}
    /\ failureCountRef' = IF HealthOk(k.outcome) THEN failureCountRef
                           ELSE failureCountRef + 1
    /\ companionStatus' = IF failureCountRef' >= FAILURE_THRESHOLD THEN "disconnected"
                 ELSE IF HealthOk(k.outcome) THEN "connected"
                 ELSE companionStatus
    /\ isPolling' = FALSE
    /\ lastFailed' = ~HealthOk(k.outcome)
    /\ AppRender(companionStatus')
    /\ UNCHANGED <<checkCount, events, srvVars, debounceVars>>

\* checkStatus after the fetch: try / catch / threshold test / finally
checkStatusResolved(k) ==
    /\ k \in checks /\ k.phase = "done"
    /\ checks' = checks \ {k}
    /\ failureCountRef' = IF HealthOk(k.outcome) THEN 0 ELSE failureCountRef + 1
    /\ companionStatus' = IF failureCountRef' >= FAILURE_THRESHOLD THEN "disconnected"
                 ELSE IF HealthOk(k.outcome) THEN "connected"
                 ELSE companionStatus
    /\ isPolling' = FALSE
    /\ lastFailed' = ~HealthOk(k.outcome)
    /\ AppRender(companionStatus')
    /\ UNCHANGED <<checkCount, events, srvVars, debounceVars>>

HealthNext ==
    \/ checkStatus
    \/ \E k \in checks, o \in HealthOutcomes : HealthOutcome(k, o)
    \/ \E k \in checks : checkStatusResolved(k)

HealthSpec == Init /\ [][HealthNext]_vars

\* ---- useDebounce ----
\* variant: the cleanup leaves the pending timeout running
ClearTimeoutKept(pending) == pending

\* cleanup of the effect: clearTimeout(handler)
ClearTimeout(pending) == {}

\* value changes: the effect's cleanup runs, then setTimeout(.., delay)
DebounceChange ==
    /\ value <= MaxChanges
    /\ value' = value + 1
    /\ handlers' = ClearTimeout(handlers)
                      \cup {[captured |-> value + 1, remaining |-> DelayTicks]}
    /\ sinceChange' = 0
    /\ UNCHANGED <<debouncedValue, emitted, mainVars>>

\* one tick of the clock; a timeout that is due fires before the next tick
DebounceTick ==
    /\ handlers # {}
    /\ \A h \in handlers : h.remaining > 0
    /\ handlers' = {[h EXCEPT !.remaining = h.remaining - 1] : h \in handlers}
    /\ sinceChange' = Min(sinceChange + 1, DelayTicks)
    /\ UNCHANGED <<value, debouncedValue, emitted, mainVars>>

\* the timeout fires: setDebouncedValue(value) with the value of its render
DebounceFire(h) ==
    /\ h \in handlers /\ h.remaining = 0
    /\ handlers' = handlers \ {h}
    /\ debouncedValue' = h.captured
    /\ emitted' = emitted \cup {h.captured}
    /\ UNCHANGED <<value, sinceChange, mainVars>>

DebounceNext ==
    \/ DebounceChange
    \/ DebounceTick
    \/ \E h \in handlers : DebounceFire(h)

DebounceSpec == Init /\ [][DebounceNext]_vars

\* time passes and a timeout that is due fires
DebounceFairSpec ==
    DebounceSpec /\ WF_vars(DebounceTick) /\ WF_vars(\E h \in handlers : DebounceFire(h))

\* The live preview: uploads and the WebSocket traffic of the session.
PreviewNext ==
    \/ HandleFileSource
    \/ HandleFileBackground
    \/ OnSourceSelect(Duration)
    \/ OnBackgroundSelect
    \/ ToggleTransparentMode
    \/ \E u \in uploads : UploadResolved(u)
    \/ \E u \in uploads : SrvCreate(u)
    \/ WsOpen
    \/ ChangeSettings
    \/ WsOnMessage
    \/ WsSrvReceive
    \/ WsSrvRenderStart
    \/ \E o \in RenderOutcomes : WsSrvRenderDone(o)

PreviewSpec == Init /\ [][PreviewNext]_vars

\* ---- Timeline: trimming ----
trimRest == <<fileVars, exportFormat, jobVars, laneVars, pollInterval, netVars, events,
              wsVars, srvVars, auxVars, startFailed, seqVars, sourceDuration>>

\* onMouseDown of a trim handle
TimelineMouseDown(handle) ==
    /\ ExportShown
    /\ isDragging = "null"
    /\ isDragging' = handle
    /\ UNCHANGED <<trimRest, startTime, endTime, tlStart, tlEnd>>

\* handleMouseMove with the pointer at time t of the track
TimelineMouseMove(t) ==
    /\ ExportShown
    /\ isDragging # "null"
    /\ LET newTime == Max(0, Min(sourceDuration, t))
       IN  IF isDragging = "start"
           THEN tlStart' = Min(newTime, tlEnd) /\ UNCHANGED tlEnd
           ELSE tlEnd' = Max(newTime, tlStart) /\ UNCHANGED tlStart
    /\ UNCHANGED <<trimRest, startTime, endTime, isDragging>>

\* handleMouseUp: onTrimChange(startTime, endTime) = handleTrimChange
TimelineMouseUp ==
    /\ ExportShown
    /\ isDragging # "null"
    /\ isDragging' = "null"
    /\ startTime' = tlStart
    /\ endTime' = tlEnd
    /\ UNCHANGED <<trimRest, tlStart, tlEnd>>

\* Loading sources of several durations, trimming, starting the lanes.
TrimNext ==
    \/ HandleFileSource
    \/ HandleFileBackground
    \/ \E d \in 1..MaxDuration : OnSourceSelect(d)
    \/ OnBackgroundSelect
    \/ ToggleTransparentMode
    \/ \E u \in uploads : SrvCreate(u)
    \/ \E u \in uploads : UploadResolved(u)
    \/ \E handle \in {"start", "end"} : TimelineMouseDown(handle)
    \/ \E t \in 0..MaxDuration : TimelineMouseMove(t)
    \/ TimelineMouseUp
    \/ HandleExport
    \/ HandleProcessPreview

TrimSpec == Init /\ [][TrimNext]_vars

\* The live preview with the eyedropper.
PickNext ==
    \/ PreviewNext
    \/ handleColorPick
    \/ HandleFocus
    \/ \E picked \in BOOLEAN : DropperClosed(picked)

PickSpec == Init /\ [][PickNext]_vars

\* The encoding process of a lane eventually exits.
FairSpec ==
    Spec /\ WF_vars(\E pr \in srvProcs, x \in Exits : SrvProcExit(pr, x))

\* transform t after the first n drags of edits
DraggedTo(t, edits, n) ==
    IF n = 0 THEN t ELSE [t EXCEPT !.x = edits[n].x, !.y = edits[n].y]

\* ---- the lanes of a session that is ready ----
\* The state once the upload of a source si (and, unless nt, of a background
\* bi) has succeeded: job 1 is set, the controls are enabled and nothing is in
\* flight.  shown: the socket is open and the first frame is displayed.
\* edits: the positions the background was then dragged to, one drag after the
\* other; each drag end recorded a history entry and sent an update.
EditedSession(si, bi, nt, shown, edits) ==
    /\ jobId = 1
    /\ sourceVideoFile = TRUE
    /\ backgroundFile = (bi # NoMedia)
    /\ isTransparentMode = nt
    /\ exportFormat = (IF nt THEN "prores" ELSE "mp4")
    /\ isUploading = FALSE
    /\ isReadyForPreview = TRUE
    /\ exportState = "idle"
    /\ exportProgress = 0
    /\ exportError = NoError
    /\ previewGenState = "idle"
    /\ previewProgress = 0
    /\ isPreviewModeActive = FALSE
    /\ lastActionRef = "null"
    /\ pollInterval = FALSE
    /\ srcPending = FALSE
    /\ bgPending = FALSE
    /\ uploads = {}
    /\ starts = {}
    /\ polls = {}
    /\ settingsVer = 1
    /\ previewImage = (IF shown THEN 1 ELSE 0)
    /\ wsState = (IF shown THEN "open" ELSE "connecting")
    /\ wsCaptured = 1
    /\ c2s = [i \in 1..Len(edits) |-> UpdateMessage(1)]
    /\ s2c = <<>>
    /\ wsBound = (IF shown THEN 1 ELSE 0)
    /\ wsPending = <<>>
    /\ wsRendering = 0
    /\ wsLastSent = (IF shown THEN 1 ELSE 0)
    /\ wsDropped = 0
    /\ wsSuperseded = FALSE
    /\ wsFirst = (IF shown THEN [type |-> "init", val |-> 1]
                  ELSE [type |-> "none", val |-> 0])
    /\ wsLastError = 0
    /\ sourceDuration = Duration
    /\ startTime = 0
    /\ endTime = Duration
    /\ tlStart = 0
    /\ tlEnd = Duration
    /\ isDragging = "null"
    /\ isPickingColor = FALSE
    /\ isAwaitingFrameForDropper = FALSE
    /\ dropperOpen = FALSE
    /\ dropperFrame = 0
    /\ pickVers = {}
    /\ startFailed = {}
    /\ uploadSeq = 0
    /\ value = 1
    /\ debouncedValue = 1
    /\ handlers = {[captured |-> 1, remaining |-> DelayTicks]}
    /\ sinceChange = 0
    /\ emitted = {}
    /\ companionStatus = "disconnected"
    /\ isPolling = TRUE
    /\ failureCountRef = 0
    /\ checks = {}
    /\ checkCount = 0
    /\ lastFailed = FALSE
    /\ sessionAtDisconnect = <<>>
    /\ sourceInfo = si
    /\ backgroundInfo = bi
    /\ foregroundTransform = getInitialFgTransform(si.width, si.height)
    /\ backgroundTransform = DraggedTo(getInitialBgTransform(bi.width, bi.height), edits,
                                       Len(edits))
    /\ selectedShapeName = (IF edits = <<>> THEN "null" ELSE "background")
    /\ history = [i \in 1..Len(edits) |->
                    [fg |-> getInitialFgTransform(si.width, si.height),
                     bg |-> DraggedTo(getInitialBgTransform(bi.width, bi.height), edits, i)]]
    /\ historyIndex = Len(edits) - 1
    /\ isTransforming = FALSE
    /\ gesture = "none"
    /\ srvJob = 1
    /\ srvStatus = "idle"
    /\ srvProgress = 0
    /\ srvError = NoError
    /\ srvArtifact = "none"
    /\ srvExit = "none"
    /\ srvProcs = {}
    /\ srvPartial = {}
    /\ srvFiles = {1}

ReadySession(si, bi, nt, shown) == EditedSession(si, bi, nt, shown, <<>>)

\* after the upload of the source in transparent mode
SessionReady == ReadySession(SourceMedia, NoMedia, TRUE, FALSE)

\* A ready session with the whole event budget left for the two lanes.
LaneInit == SessionReady /\ events = 0

LaneNext ==
    \/ HandleExport
    \/ HandleProcessPreview
    \/ resetExport
    \/ handleExitPreviewMode
    \/ PollTick
    \/ \E s \in starts : StartResolved(s)
    \/ \E p \in polls : PollResolved(p)
    \/ \E s \in starts : StartNetFail(s)
    \/ \E p \in polls : PollNetFail(p)
    \/ \E s \in starts : SrvStartLane(s)
    \/ \E pr \in srvProcs, e \in 0..Duration : SrvProgress(pr, e)
    \/ \E pr \in srvProcs, x \in Exits : SrvProcExit(pr, x)
    \/ \E p \in polls : SrvStatus(p)

LaneSpec == LaneInit /\ [][LaneNext]_vars

\* The lanes together with the live preview of the ready session, with
\* encodings and renders that succeed.
LiveNext ==
    \/ HandleExport
    \/ HandleProcessPreview
    \/ handleExitPreviewMode
    \/ PollTick
    \/ \E s \in starts : StartResolved(s)
    \/ \E p \in polls : PollResolved(p)
    \/ \E s \in starts : SrvStartLane(s)
    \/ \E pr \in srvProcs : SrvProcExit(pr, "zero")
    \/ \E p \in polls : SrvStatus(p)
    \/ WsOpen
    \/ ChangeSettings
    \/ WsOnMessage
    \/ WsSrvReceive
    \/ WsSrvRenderStart
    \/ WsSrvRenderDone("frame")

LiveSpec == LaneInit /\ [][LiveNext]_vars


\* Trimming a ready session and running the two lanes on it, with encodings
\* that succeed: the Export section is disabled while a lane runs and while
\* the preview clip is shown, and enabled again afterwards.
TrimLaneNext ==
    \/ \E handle \in {"start", "end"} : TimelineMouseDown(handle)
    \/ \E t \in 0..MaxDuration : TimelineMouseMove(t)
    \/ TimelineMouseUp
    \/ HandleExport
    \/ HandleProcessPreview
    \/ handleExitPreviewMode
    \/ PollTick
    \/ \E s \in starts : StartResolved(s)
    \/ \E p \in polls : PollResolved(p)
    \/ \E s \in starts : SrvStartLane(s)
    \/ \E pr \in srvProcs : SrvProcExit(pr, "zero")
    \/ \E p \in polls : SrvStatus(p)

TrimLaneSpec == LaneInit /\ [][TrimLaneNext]_vars
\* ---- Previewer: the canvas, transforms and the undo history ----
\* the Stage is rendered
StageShown == ~isPreviewModeActive /\ ~isUploading /\ isReadyForPreview
\* the KonvaImage of a layer is rendered
NodeShown(name) ==
    /\ StageShown
    /\ name = "foreground" => previewImage # 0
    /\ name = "background" => (~isTransparentMode /\ backgroundFile)
LayerNames == {"foreground", "background"}
\* positions and scales a gesture can leave a node at
Positions == {[x |-> 0, y |-> 0], [x |-> 100, y |-> 40]}
NodeScales == {-50, 200}
Abs(n) == IF n < 0 THEN -n ELSE n

\* what no canvas or keyboard handler touches
canvasRest == <<fileVars, exportFormat, jobVars, laneVars, pollInterval, netVars,
               srvVars, healthVars, debounceVars, seqVars, trimVars, infoVars>>
wsQuiet == <<settingsVer, previewImage, wsState, wsCaptured, s2c, wsBound, wsPending,
            wsRendering, wsDropped, wsSuperseded, wsLastError, pickVars>>

\* variant: the redo tail is kept
pushHistoryKeepTail(fg, bg) ==
    /\ history' = Append(history, [fg |-> fg, bg |-> bg])
    /\ historyIndex' = Len(history)

pushHistory(fg, bg) ==
    LET newHistory == Append(SubSeq(history, 1, historyIndex + 1), [fg |-> fg, bg |-> bg])
    IN  /\ history' = newHistory
        /\ historyIndex' = Len(newHistory) - 1

\* transformState of handleTransform and handleNodeDragEnd; scale is
\* node.scaleX() after handleTransform made it non-negative
transformState(name, x, y, scale) ==
    [x |-> x, y |-> y, scale |-> Abs(scale),
     width |-> IF name = "foreground" THEN foregroundTransform.width
               ELSE backgroundTransform.width,
     height |-> IF name = "foreground" THEN foregroundTransform.height
                ELSE backgroundTransform.height]

\* mouse down on the stage itself ("null") or on a node
handleStageMouseDown(name) ==
    /\ EnvEvent
    /\ StageShown
    /\ name # "null" => NodeShown(name)
    /\ gesture = "none"
    /\ selectedShapeName' = name
    /\ startFailed' = {}
    /\ UNCHANGED <<layerVars, historyVars, isTransforming, gesture>>
    /\ UNCHANGED <<canvasRest, wsVars>>

\* onDragStart / onTransformStart of the selected node; the effect on
\* isTransforming sends nothing while it is true
handleTransformStart(kind) ==
    /\ selectedShapeName # "null"
    /\ NodeShown(selectedShapeName)
    /\ gesture = "none"
    /\ gesture' = kind
    /\ isTransforming' = TRUE
    /\ UNCHANGED <<layerVars, historyVars, selectedShapeName, events, startFailed>>
    /\ UNCHANGED <<canvasRest, wsVars>>

\* onTransform: the Transformer moved and scaled the node to pos and scale
handleTransform(pos, scale) ==
    /\ EnvEvent
    /\ gesture = "resize"
    /\ NodeShown(selectedShapeName)
    /\ LET ts == transformState(selectedShapeName, pos.x, pos.y, scale)
       IN  /\ foregroundTransform' =
                 IF selectedShapeName = "foreground" THEN ts ELSE foregroundTransform
           /\ backgroundTransform' =
                 IF selectedShapeName = "background" THEN ts ELSE backgroundTransform
    /\ startFailed' = {}
    /\ UNCHANGED <<historyVars, selectedShapeName, isTransforming, gesture>>
    /\ UNCHANGED <<canvasRest, wsVars>>

\* variant: the end of a resize records no history entry
handleTransformEndUnrecorded ==
    /\ EnvEvent
    /\ gesture = "resize"
    /\ NodeShown(selectedShapeName)
    /\ isTransforming' = FALSE
    /\ gesture' = "none"
    /\ requestPreviewUpdate(1, settingsVer)
    /\ startFailed' = {}
    /\ UNCHANGED <<layerVars, historyVars, selectedShapeName>>
    /\ UNCHANGED <<canvasRest, wsQuiet>>

\* onTransformEnd; the effect on isTransforming calls requestPreviewUpdate
handleTransformEnd ==
    /\ EnvEvent
    /\ gesture = "resize"
    /\ NodeShown(selectedShapeName)
    /\ isTransforming' = FALSE
    /\ gesture' = "none"
    /\ pushHistory(foregroundTransform, backgroundTransform)
    /\ requestPreviewUpdate(1, settingsVer)
    /\ startFailed' = {}
    /\ UNCHANGED <<layerVars, selectedShapeName>>
    /\ UNCHANGED <<canvasRest, wsQuiet>>

\* onDragEnd: the node was dropped at pos
handleNodeDragEnd(pos) ==
    /\ EnvEvent
    /\ gesture = "drag"
    /\ NodeShown(selectedShapeName)
    /\ isTransforming' = FALSE
    /\ gesture' = "none"
    /\ LET name == selectedShapeName
           ts == transformState(name, pos.x, pos.y,
                                IF name = "foreground" THEN foregroundTransform.scale
                                ELSE backgroundTransform.scale)
       IN  /\ foregroundTransform' = IF name = "foreground" THEN ts ELSE foregroundTransform
           /\ backgroundTransform' = IF name = "background" THEN ts ELSE backgroundTransform
           /\ IF name = "foreground" THEN pushHistory(ts, backgroundTransform)
              ELSE pushHistory(foregroundTransform, ts)
    /\ requestPreviewUpdate(1, settingsVer)
    /\ startFailed' = {}
    /\ UNCHANGED selectedShapeName
    /\ UNCHANGED <<canvasRest, wsQuiet>>

\* ---- C31 ----
\* variant: undo is allowed down to the position before the first entry
handleKeyDownUnguarded(key) ==
    /\ EnvEvent
    /\ LET newIndex == IF key = "z" THEN historyIndex - 1 ELSE historyIndex + 1
           can == IF key = "z" THEN historyIndex >= 0
                  ELSE historyIndex < Len(history) - 1
       IN  IF can
           THEN /\ historyIndex' = newIndex
                /\ foregroundTransform' = IF newIndex >= 0 THEN history[newIndex + 1].fg
                                          ELSE foregroundTransform
                /\ backgroundTransform' = IF newIndex >= 0 THEN history[newIndex + 1].bg
                                          ELSE backgroundTransform
                /\ UNCHANGED history
           ELSE UNCHANGED <<layerVars, historyVars>>
    /\ startFailed' = {}
    /\ UNCHANGED <<selectedShapeName, isTransforming, gesture>>
    /\ UNCHANGED <<canvasRest, wsVars>>

\* keydown Ctrl+Z / Ctrl+Y on the window (the focus is not in an input)
handleKeyDown(key) ==
    /\ EnvEvent
    /\ LET newIndex == IF key = "z" THEN historyIndex - 1 ELSE historyIndex + 1
           can == IF key = "z" THEN historyIndex > 0
                  ELSE historyIndex < Len(history) - 1
       IN  IF can
           THEN /\ historyIndex' = newIndex
                /\ foregroundTransform' = history[newIndex + 1].fg
                /\ backgroundTransform' = history[newIndex + 1].bg
                /\ UNCHANGED history
           ELSE UNCHANGED <<layerVars, historyVars>>
    /\ startFailed' = {}
    /\ UNCHANGED <<selectedShapeName, isTransforming, gesture>>
    /\ UNCHANGED <<canvasRest, wsVars>>

\* the Reset button of the Transform section
handleResetTransform ==
    /\ EnvEvent
    /\ selectedShapeName # "null"
    /\ ~arePostLoadControlsDisabled
    /\ IF selectedShapeName = "foreground" /\ sourceInfo # NoMedia
       THEN LET newFg == getInitialFgTransform(sourceInfo.width, sourceInfo.height)
            IN  /\ foregroundTransform' = newFg
                /\ pushHistory(newFg, backgroundTransform)
                /\ UNCHANGED backgroundTransform
       ELSE IF selectedShapeName = "background" /\ backgroundTransform.width > 0
       THEN LET newBg == getInitialBgTransform(backgroundTransform.width,
                                               backgroundTransform.height)
            IN  /\ backgroundTransform' = newBg
                /\ pushHistory(foregroundTransform, newBg)
                /\ UNCHANGED foregroundTransform
       ELSE UNCHANGED <<layerVars, historyVars>>
    /\ startFailed' = {}
    /\ UNCHANGED <<selectedShapeName, isTransforming, gesture>>
    /\ UNCHANGED <<canvasRest, wsVars>>

\* A ready session with a background, the first frame displayed; the media
\* are any of Media.
TransformInit ==
    /\ \E si \in Media, bi \in Media : ReadySession(si, bi, FALSE, TRUE)
    /\ events = 0

\* The canvas and the keyboard, with Export Video.  No action of this
\* specification removes a node from the stage, so a gesture that has started
\* can end.
TransformNext ==
    \/ \E name \in LayerNames \cup {"null"} : handleStageMouseDown(name)
    \/ \E kind \in {"drag", "resize"} : handleTransformStart(kind)
    \/ \E pos \in Positions, scale \in NodeScales : handleTransform(pos, scale)
    \/ handleTransformEnd
    \/ \E pos \in Positions : handleNodeDragEnd(pos)
    \/ \E key \in {"z", "y"} : handleKeyDown(key)
    \/ handleResetTransform
    \/ HandleExport

TransformSpec == TransformInit /\ [][TransformNext]_vars

\* The same session after the background was dragged once, with the whole
\* event budget left.
UndoInit ==
    /\ \E si \in Media, bi \in Media :
          EditedSession(si, bi, FALSE, TRUE, <<[x |-> 100, y |-> 40]>>)
    /\ events = 0

UndoSpec == UndoInit /\ [][TransformNext]_vars

\* The session of the media the file inputs deliver, after the background was
\* dragged once.
HistoryInit ==
    /\ EditedSession(SourceMedia, BackgroundMedia, FALSE, TRUE, <<[x |-> 100, y |-> 40]>>)
    /\ events = 0

\* The canvas and the keyboard together with new uploads: files are chosen,
\* their details arrive, the service creates the job.
HistoryNext ==
    \/ TransformNext
    \/ HandleFileSource
    \/ HandleFileBackground
    \/ OnSourceSelect(Duration)
    \/ OnBackgroundSelect
    \/ ToggleTransparentMode
    \/ \E u \in uploads : SrvCreate(u)
    \/ \E u \in uploads : UploadResolved(u)

HistorySpec == HistoryInit /\ [][HistoryNext]_vars

\* ---- App: the Previewer under the health polling ----
\* App renders the Previewer only while the status is connected.  (The
\* specifications without the health actions follow one mounted Previewer; the
\* status plays no part in them.)
Mounted == companionStatus = "connected"

\* a health check is answered with status ok, or fails
AppOutcomes ==
    {[kind |-> "response", ok |-> TRUE, body |-> "ok"],
     [kind |-> "error", ok |-> FALSE, body |-> "invalid"]}

AppNext ==
    \/ checkStatus
    \/ \E k \in checks, o \in AppOutcomes : HealthOutcome(k, o)
    \/ \E k \in checks : checkStatusResolved(k)
    \/ Mounted /\ HandleFileSource
    \/ Mounted /\ OnSourceSelect(Duration)
    \/ Mounted /\ ToggleTransparentMode
    \/ \E u \in uploads : SrvCreate(u)
    \/ \E u \in uploads : UploadResolved(u)
    \/ Mounted /\ ChangeSettings
    \/ Mounted /\ HandleExport

AppSpec == Init /\ [][AppNext]_vars

TypeOK ==
    \* a session that starts ready has job 1 and can upload MaxEvents times
    /\ jobId \in 0..(MaxEvents + 1)
    /\ events \in 0..MaxEvents
    /\ exportState \in {"idle", "processing", "completed", "failed"}
    /\ previewGenState \in {"idle", "processing", "failed"}
    /\ exportProgress \in 0..100
    /\ previewProgress \in 0..100
    /\ exportFormat \in Formats
    /\ lastActionRef \in {"null", "export", "preview"}
    /\ srvStatus \in {"idle"} \cup ActiveStatus \cup TerminalStatus
    /\ srvProgress \in 0..100
    /\ \A pr \in srvProcs : pr.lane \in Lanes
    /\ companionStatus \in {"connected", "disconnected"}
    /\ failureCountRef \in 0..MaxChecks
    /\ lastFailed \in BOOLEAN
    /\ sessionAtDisconnect = <<>> \/ Len(sessionAtDisconnect) = Len(Session)
    /\ sourceInfo \in Media \cup {NoMedia} /\ backgroundInfo \in Media \cup {NoMedia}
    /\ selectedShapeName \in {"null", "foreground", "background"}
    /\ historyIndex \in -1..MaxEvents
    /\ isTransforming \in BOOLEAN
    /\ gesture \in {"none", "drag", "resize"}
    /\ value \in 1..(MaxChanges + 1) /\ debouncedValue \in 1..value
    /\ sourceDuration \in 0..MaxDuration
    /\ tlStart \in 0..MaxDuration /\ tlEnd \in 0..MaxDuration
    /\ isDragging \in {"null", "start", "end"}
    /\ startFailed \subseteq Lanes
    /\ dropperFrame \in 0..(MaxEvents + 1)

\* ---- properties ----

\* C1: for one job the export lane (processing) and the preview-clip lane
\* (preview_processing) are never active at the same time: at most one encoding
\* process runs, it is the one of the lane the status names, and a start
\* request that found the other lane active was answered 409 Conflict.
LanesExclusive ==
    /\ Cardinality(srvProcs) <= 1
    /\ \A pr \in srvProcs : srvStatus = ActiveOf(pr.lane)
    /\ srvStatus \in ActiveStatus => \E pr \in srvProcs : srvStatus = ActiveOf(pr.lane)
    /\ \A s \in starts :
          (s.seen \in ActiveStatus /\ s.seen # ActiveOf(s.lane)) =>
              (s.code = 409 /\ s.error = "Conflict" /\ s.phase = "fail")

\* an export request has been answered Conflict while the preview lane runs
LanesExclusiveWitness ==
    \E s \in starts :
        /\ s.lane = "export" /\ s.seen = "preview_processing" /\ s.code = 409
        /\ srvStatus = "preview_processing"
        /\ srvProcs = {[lane |-> "preview", job |-> srvJob]}

\* C2: an export issued after process-preview is answered Conflict as long as
\* the preview lane is not terminal; a start request of either lane that finds
\* the job in a terminal state (preview_completed, completed, failed) or idle
\* is accepted.
ConflictUntilTerminal ==
    \A s \in starts :
        /\ (s.lane = "export" /\ s.seen = "preview_processing") => s.code = 409
        /\ s.seen \in TerminalStatus \cup {"idle"} => s.code = 200
        /\ s.code = 409 => s.seen \in ActiveStatus

\* an export has been accepted after the preview lane had completed
ConflictUntilTerminalWitness ==
    \E s \in starts :
        s.lane = "export" /\ s.seen = "preview_completed" /\ s.code = 200

\* C3: within one lane run progress never decreases: the stored progress while
\* the lane stays active, and the client's exportProgress / previewProgress
\* while the client's lane state stays processing.
ProgressMonotone ==
    [][/\ (srvStatus \in ActiveStatus /\ srvStatus' = srvStatus /\ srvProcs' = srvProcs)
            => srvProgress' >= srvProgress
       /\ (exportState = "processing" /\ exportState' = "processing")
            => exportProgress' >= exportProgress
       /\ (previewGenState = "processing" /\ previewGenState' = "processing")
            => previewProgress' >= previewProgress]_vars

\* C3, the part the service guarantees: the stored progress stays within
\* 0..100, never decreases while the lane run lasts, and is 0 when a run starts.
StoredProgressMonotone ==
    [][/\ srvProgress' \in 0..100
       /\ (srvStatus \in ActiveStatus /\ srvStatus' = srvStatus /\ srvProcs' = srvProcs)
            => srvProgress' >= srvProgress
       /\ (srvProcs' # srvProcs /\ srvProcs' # {}) => srvProgress' = 0]_vars

ExitDeterminesTerminal ==
    /\ srvExit = "zero" =>
          /\ srvArtifact \in Lanes
          /\ srvStatus = DoneOf(srvArtifact)
          /\ srvProgress = 100
          /\ srvError = NoError
    /\ srvExit \in {"nonzero", "parse", "fault"} =>
          (srvStatus = "failed" /\ srvError # NoError)
    /\ srvStatus = "failed" => srvArtifact = "none"
    /\ srvStatus \in {"completed", "preview_completed"} =>
          (srvError = NoError /\ srvArtifact # "none" /\ srvProgress = 100)

\* a run has ended on a progress stream that could not be parsed
ExitDeterminesTerminalWitness ==
    srvExit = "parse" /\ srvStatus = "failed" /\ srvError # NoError

\* C6: a reset or a new upload that arrives while a lane is active terminates
\* the encoding process and discards its partial output; no encoding process
\* runs on a job whose workspace files have been deleted.
CancellationClean ==
    /\ \A pr \in srvProcs : pr.job = srvJob /\ pr.job \in srvFiles
    /\ \A pl \in srvPartial : \E pr \in srvProcs : pr.lane = pl
    /\ srvExit = "cancelled" =>
          (srvProcs = {} /\ srvPartial = {} /\ srvStatus = "idle")

\* a new upload has cancelled the running lane of the previous job
CancellationCleanWitness ==
    srvExit = "cancelled" /\ srvJob > 1 /\ srvFiles = {srvJob} /\ srvProcs = {}

\* no message is in flight and the preview engine is at rest after an update
PreviewQuiet ==
    /\ wsState = "open" /\ wsLastSent # 0
    /\ c2s = <<>> /\ s2c = <<>> /\ wsPending = <<>> /\ wsRendering = 0

\* C7: preview rendering is last-request-wins: at most one request is pending,
\* an update supersedes the render in flight, and after a burst of updates the
\* last frame delivered is the one rendered from the most recent update.
LastFrameIsLatest ==
    /\ Len(wsPending) <= 1
    /\ ~(wsRendering # 0 /\ wsPending # <<>>)
    /\ (PreviewQuiet /\ previewImage # 0) => previewImage = wsLastSent

\* C7 as it holds: at most one request is pending, an update supersedes the
\* render in flight, and after a burst of updates the last frame delivered is
\* the one rendered from the most recent update unless the render of that
\* update was dropped on a timeout or ended in a decode error; the frame shown
\* is never newer than the last update.
LastRequestWins ==
    /\ Len(wsPending) <= 1
    /\ ~(wsRendering # 0 /\ wsPending # <<>>)
    /\ PreviewQuiet => (previewImage = wsLastSent \/ wsDropped = wsLastSent)
    /\ wsState = "open" => previewImage <= wsLastSent

\* after a burst in which a render was superseded, the frame of the most
\* recent update is shown
LastRequestWinsWitness ==
    /\ PreviewQuiet /\ wsSuperseded
    /\ wsLastSent > 2 /\ previewImage = wsLastSent /\ wsDropped # wsLastSent

\* C11: on every WebSocket connection the first message sent is init with the
\* client's current jobId; an update is sent only on an open socket, with a
\* non-null jobId, after the init of that connection.
InitFirst ==
    /\ wsFirst.type \in {"none", "init"}
    /\ wsFirst.type = "init" => (wsFirst.val = jobId /\ jobId # 0 /\ wsState = "open")
    /\ (wsLastSent # 0 \/ c2s # <<>>) =>
          (wsFirst.type = "init" /\ wsState = "open" /\ jobId # 0)
    /\ \A i \in 1..Len(c2s) : c2s[i].type = "init" => (i = 1 /\ c2s[i].val = jobId)

\* updates with later settings have followed the init of the connection
InitFirstWitness ==
    /\ wsFirst = InitMessage(jobId) /\ wsBound = jobId
    /\ wsLastSent = settingsVer /\ settingsVer > 1

\* C12: receiving an error message leaves the connection open and leaves
\* previewImage, jobId, readiness and the export / preview-clip state unchanged.
ErrorIsNonFatal ==
    [][(wsState = "open" /\ s2c # <<>> /\ Head(s2c).type = "error"
          /\ s2c' = Tail(s2c) /\ wsLastError' = Head(s2c).val) =>
          /\ wsState' = "open"
          /\ UNCHANGED <<previewImage, jobId, isReadyForPreview, isUploading,
                         laneVars, pollInterval, c2s, wsLastSent>>]_vars

\* after an error message a later update has been sent and its frame is shown
ErrorIsNonFatalWitness ==
    /\ wsLastError # 0 /\ wsState = "open"
    /\ previewImage = wsLastSent
    /\ wsLastError < previewImage

\* C13: a health check that returns HTTP-OK with body status 'ok' sets the
\* status to connected and the failure counter to 0; every other outcome adds
\* exactly 1 to the counter and never sets the status to connected.
HealthCheckCounts ==
    [][\A k \in checks \ checks' :
          k.phase = "done" =>
             IF k.outcome.kind = "response" /\ k.outcome.ok /\ k.outcome.body = "ok"
             THEN companionStatus' = "connected" /\ failureCountRef' = 0
             ELSE /\ failureCountRef' = failureCountRef + 1
                  /\ companionStatus' = "connected" => companionStatus = "connected"]_vars

\* after a successful check one check has failed: still connected, counter 1
HealthCheckCountsWitness ==
    companionStatus = "connected" /\ failureCountRef = 1 /\ checks = {} /\ checkCount = 2

\* C14: a lane whose start request was rejected or failed on the network is
\* failed and stays failed until the user acts; it does not get completed or
\* into preview mode meanwhile.
StartFailureSticks ==
    /\ "export" \in startFailed => exportState = "failed"
    /\ "preview" \in startFailed => (previewGenState = "failed" /\ ~isPreviewModeActive)

\* C15: nothing is retried automatically: while no lane is processing (in
\* particular after a run has failed) no polling interval is set and no status
\* request is issued, and an export or process-preview request is issued only
\* by a user action that takes its lane from idle or failed to processing.
NoAutomaticRetry ==
    /\ [](pollInterval => (exportState = "processing" \/ previewGenState = "processing"))
    /\ [][/\ \A p \in polls' \ polls : p.phase = "sent" =>
                (exportState = "processing" \/ previewGenState = "processing")
          /\ \A s \in starts' \ starts :
                s.phase = "sent" =>
                   /\ events' = events + 1 /\ startFailed' = {}
                   /\ lastActionRef' = s.lane
                   /\ IF s.lane = "export"
                      THEN exportState # "processing" /\ exportState' = "processing"
                      ELSE previewGenState # "processing"
                           /\ previewGenState' = "processing"]_vars

\* a run has failed at the service, the client has shown it and polls no more
NoAutomaticRetryWitness ==
    /\ srvStatus = "failed" /\ srvJob = jobId
    /\ exportState = "failed" /\ startFailed = {}
    /\ ~pollInterval /\ polls = {} /\ starts = {}

\* C19: a non-null jobId is the id returned by the most recently started
\* upload, whatever the overlap of uploads and the order of their responses:
\* a response that sets jobId is the response of the upload started last.
JobIsLatestUpload ==
    [][\A u \in uploads \ uploads' :
          (u.phase = "ok" /\ jobId' = u.job) => u.id = uploadSeq]_vars

\* C20: a terminal exportState (completed or failed) changes only through a
\* user action: Start New Export or a new upload (to idle), Try Again / Export
\* (to processing, with a new export request); no status response changes it.
TerminalExportKept ==
    [][(exportState \in {"completed", "failed"} /\ exportState' # exportState) =>
          \/ exportState' = "idle"
          \/ /\ exportState' = "processing"
             /\ \E s \in starts' \ starts : s.lane = "export" /\ s.phase = "sent"]_vars

DropperOnPickFrame == dropperFrame # 0 => dropperFrame \in pickVers

\* C16: the trim range of every export and process-preview request satisfies
\* 0 <= startTime <= endTime <= duration of the source loaded at that moment.
TrimWithinSource ==
    \A s \in starts :
        /\ 0 <= s.body.startTime
        /\ s.body.startTime <= s.body.endTime
        /\ s.body.endTime <= s.uiDuration

\* C8: every export request issued in transparent mode carries format prores
\* and transparent = true.
TransparentExportIsProres ==
    \A s \in starts :
        (s.lane = "export" /\ s.uiTransparent) =>
            (s.body.format = "prores" /\ s.body.transparent)

\* a transparent export has been issued with no background selected
TransparentExportIsProresWitness ==
    \E s \in starts :
        /\ s.lane = "export" /\ s.uiTransparent /\ ~s.uiBackground
        /\ s.body.format = "prores" /\ s.code = 200

\* C9: every upload request contains the source video and its properties, and
\* a background with its properties exactly when isTransparent is false.
UploadFormComplete ==
    \A u \in uploads :
        /\ u.form.sourceVideo /\ u.form.sourceProperties
        /\ u.form.background <=> ~u.form.isTransparent
        /\ u.form.backgroundProperties <=> ~u.form.isTransparent

\* a transparent upload has been issued while a background is still selected
UploadFormCompleteWitness ==
    \E u \in uploads :
        u.form.isTransparent /\ u.uiBackground /\ ~u.form.background

\* C10: once an upload has failed, the job that was active before it is still
\* the client's current job: same jobId, still ready for preview and export.
FailedUploadKeepsJob ==
    [][\A u \in uploads :
          (u.phase = "fail" /\ u \notin uploads' /\ u.prevJob # 0 /\ u.prevReady)
              => (jobId' = u.prevJob /\ isReadyForPreview')]_vars

\* C21: while a lane of a job is 'processing' on the client the polling
\* interval is live, so the client keeps asking for the status until it
\* leaves 'processing'.
PollingWhileProcessing ==
    (jobId # 0 /\ (exportState = "processing" \/ previewGenState = "processing"))
        => pollInterval

\* C22: a process-preview or export request is issued only for the job the
\* client holds, when jobId is set, the session is ready for preview and no
\* upload is in progress (neither flagged by isUploading nor in flight).
StartOnlyWhenReady ==
    [][\A s \in starts' :
        (\A t \in starts : t.id # s.id) =>
            /\ s.job = jobId
            /\ jobId # 0
            /\ isReadyForPreview
            /\ ~isUploading
            /\ uploads = {}]_vars


\* a step in which requestPreviewUpdate sends an 'update'
UpdateSent == Len(c2s') > Len(c2s) /\ c2s'[Len(c2s')].type = "update"

\* a step in which ws.current.onmessage receives a 'preview_frame'
FrameReceived ==
    /\ wsState = "open" /\ s2c # <<>> /\ Head(s2c).type = "preview_frame"
    /\ s2c' = Tail(s2c) /\ wsState' = "open"

ClientLanesExclusive ==
    [][/\ ~(exportState = "processing" /\ previewGenState = "processing")
       /\ \A s \in starts' :
            (\A t \in starts : t.id # s.id) =>
                /\ exportState # "processing"
                /\ previewGenState # "processing"
                /\ ~isUploading
                /\ \A u \in uploads : u.phase # "sent"]_vars

\* C27: a status response is applied only to the lane started last:
\* exportState becomes 'completed' only when the last action was export, and
\* preview mode is activated only when the last action was preview.
StatusAppliedToLastLane ==
    [][/\ (exportState # "completed" /\ exportState' = "completed")
            => lastActionRef = "export"
       /\ (~isPreviewModeActive /\ isPreviewModeActive')
            => lastActionRef = "preview"]_vars

\* C28: the status goes from connected to disconnected only in a step that
\* finishes a failed health check whose predecessor (the check that finished
\* before it) had failed too, with no successful check in between; one failed
\* check after a successful one leaves the status connected.
DisconnectNeedsTwoFailures ==
    [][/\ (companionStatus = "connected" /\ companionStatus' = "disconnected") =>
            /\ lastFailed
            /\ \E k \in checks \ checks' :
                  ~(k.outcome.kind = "response" /\ k.outcome.ok /\ k.outcome.body = "ok")
       /\ (companionStatus = "connected" /\ ~lastFailed /\ checks' # checks) =>
            companionStatus' = "connected"]_vars

\* a successful check, then two failed ones: disconnected
DisconnectNeedsTwoFailuresWitness ==
    /\ companionStatus = "disconnected"
    /\ checkCount = 3
    /\ checks = {}
    /\ failureCountRef = 2
    /\ lastFailed
\* ---- C24 ----
\* a step that changes a layer's transform while the media stay the same: a
\* transform gesture, a drag end, undo, redo or reset
TransformUpdated == layerVars' # layerVars /\ infoVars' = infoVars

\* C24: every transform update changes the transform of one layer only and
\* leaves the other layer's transform unchanged; the width and height of both
\* transforms stay the natural dimensions of the layer's media and the scale
\* of both stays non-negative.
TransformUpdateKeepsFrame ==
    [][TransformUpdated =>
        /\ foregroundTransform' = foregroundTransform
           \/ backgroundTransform' = backgroundTransform
        /\ foregroundTransform'.width = sourceInfo.width
        /\ foregroundTransform'.height = sourceInfo.height
        /\ backgroundTransform'.width = backgroundInfo.width
        /\ backgroundTransform'.height = backgroundInfo.height
        /\ foregroundTransform'.scale >= 0
        /\ backgroundTransform'.scale >= 0]_vars

\* ---- C25 ----
\* transform t shows media m at its natural size, scaled, centred in the canvas
CentredIn(t, m) ==
    /\ t.width = m.width /\ t.height = m.height
    /\ 2 * t.x * ScaleUnit + m.width * t.scale = logicalWidth * ScaleUnit
    /\ 2 * t.y * ScaleUnit + m.height * t.scale = logicalHeight * ScaleUnit
\* the largest scale at which m lies within the canvas
ContainFit(t, m) ==
    /\ CentredIn(t, m)
    /\ m.width * t.scale <= logicalWidth * ScaleUnit
    /\ m.height * t.scale <= logicalHeight * ScaleUnit
    /\ m.width * t.scale = logicalWidth * ScaleUnit
       \/ m.height * t.scale = logicalHeight * ScaleUnit
\* the smallest scale at which m covers the canvas
CoverFit(t, m) ==
    /\ CentredIn(t, m)
    /\ m.width * t.scale >= logicalWidth * ScaleUnit
    /\ m.height * t.scale >= logicalHeight * ScaleUnit
    /\ m.width * t.scale = logicalWidth * ScaleUnit
       \/ m.height * t.scale = logicalHeight * ScaleUnit
\* one entry holding the new pair follows the entries up to the current one
OneEntryPushed ==
    /\ Len(history') = historyIndex + 2
    /\ historyIndex' = historyIndex + 1
    /\ \A i \in 1..(historyIndex + 1) : history'[i] = history[i]
    /\ history'[Len(history')] = [fg |-> foregroundTransform', bg |-> backgroundTransform']

\* C25: Reset on the selected layer places it as at the start (the foreground
\* contained in the 1280x720 canvas, the background covering it, both centred
\* and of natural size), leaves the other layer's transform unchanged and
\* pushes exactly one history entry holding the resulting pair; with no layer
\* selected or no media for the selected layer it changes neither the
\* transforms nor the history.
ResetPlacesSelectedLayer ==
    [][handleResetTransform =>
        /\ (selectedShapeName = "foreground" /\ sourceInfo # NoMedia) =>
              /\ ContainFit(foregroundTransform', sourceInfo)
              /\ backgroundTransform' = backgroundTransform
              /\ OneEntryPushed
        /\ (selectedShapeName = "background" /\ backgroundInfo # NoMedia) =>
              /\ CoverFit(backgroundTransform', backgroundInfo)
              /\ foregroundTransform' = foregroundTransform
              /\ OneEntryPushed
        /\ (\/ selectedShapeName = "null"
            \/ selectedShapeName = "foreground" /\ sourceInfo = NoMedia
            \/ selectedShapeName = "background" /\ backgroundInfo = NoMedia) =>
              UNCHANGED <<layerVars, historyVars>>]_vars

\* the foreground was dragged away and then reset
ResetPlacesSelectedLayerWitness ==
    /\ selectedShapeName = "foreground"
    /\ sourceInfo = SourceMedia
    /\ Len(history) = 2
    /\ historyIndex = 1
    /\ history[1].fg.x = 100
    /\ history[2].fg = foregroundTransform
    /\ foregroundTransform.x = 320
    /\ history[2].bg = backgroundTransform

\* ---- C30 ----
\* C30: while an upload is in progress or a lane is processing, no step
\* changes the composition: the key settings, the two transforms, the trim
\* range and the selected files stay as they are.
CompositionFrozenWhileBusy ==
    [][(isUploading \/ exportState = "processing" \/ previewGenState = "processing") =>
        UNCHANGED <<settingsVer, foregroundTransform, backgroundTransform, startTime,
                    endTime, sourceVideoFile, backgroundFile>>]_vars

\* ---- C29 ----
\* C29: when the status goes connected -> disconnected -> connected, the
\* session state of the Previewer (job, key settings, transforms, trim range,
\* export state) after the reconnection equals its state before the
\* disconnect.
ReconnectKeepsSession ==
    [][(companionStatus = "disconnected" /\ companionStatus' = "connected"
        /\ sessionAtDisconnect # <<>>) => Session' = sessionAtDisconnect]_vars

\* ---- C31 ----
\* C31: historyIndex is -1 exactly when history is empty and otherwise lies
\* within 0 .. history.length - 1; an undo at index 0 or with an empty history
\* and a redo at the last index change neither the transforms nor the history.
HistoryIndexConsistent ==
    /\ [](/\ historyIndex = -1 <=> history = <<>>
          /\ history # <<>> => (0 <= historyIndex /\ historyIndex <= Len(history) - 1))
    /\ [][/\ (handleKeyDown("z") /\ historyIndex <= 0) =>
                UNCHANGED <<layerVars, historyVars>>
          /\ (handleKeyDown("y") /\ historyIndex = Len(history) - 1) =>
                UNCHANGED <<layerVars, historyVars>>]_vars

\* a new upload emptied the history, then the background was dragged: the
\* history holds that one entry at index 0, after two more events
HistoryIndexConsistentWitness ==
    /\ jobId = 2
    /\ Len(history) = 1
    /\ historyIndex = 0
    /\ backgroundTransform = history[1].bg
    /\ backgroundTransform.x = 0
    /\ events = 5

\* ---- C32 ----
\* the pair of transforms on the canvas
CurrentPair == [fg |-> foregroundTransform, bg |-> backgroundTransform]

ReadyHistoryHoldsInitial ==
    [][(~isReadyForPreview /\ isReadyForPreview') =>
        /\ historyIndex' = 0
        /\ Len(history') = 1
        /\ history'[1] = [fg |-> foregroundTransform', bg |-> backgroundTransform']
        /\ ContainFit(history'[1].fg, sourceInfo')
        /\ backgroundInfo' # NoMedia => CoverFit(history'[1].bg, backgroundInfo')]_vars

\* ---- C34 ----
\* a step that records a pair of transforms: the history changes and is not
\* emptied by a new upload
HistoryRecorded == history' # history /\ history' # <<>> /\ infoVars' = infoVars

\* C34: recording a new pair keeps the entries up to historyIndex, drops the
\* entries after it, appends the new pair and moves historyIndex to the last
\* position, so that no redo is possible after it.
PushDiscardsRedoTail ==
    [][HistoryRecorded =>
        /\ Len(history') = historyIndex + 2
        /\ \A i \in 1..(historyIndex + 1) : history'[i] = history[i]
        /\ history'[Len(history')] = [fg |-> foregroundTransform', bg |-> backgroundTransform']
        /\ historyIndex' = Len(history') - 1
        /\ ~(historyIndex' < Len(history') - 1)]_vars

\* the second drag of the background was undone and the background was then
\* reset: the reset pair stands where the undone entry stood
PushDiscardsRedoTailWitness ==
    /\ selectedShapeName = "background"
    /\ Len(history) = 2
    /\ historyIndex = 1
    /\ history[1].bg.x = 100
    /\ CoverFit(history[2].bg, backgroundInfo)
    /\ CurrentPair = history[2]
    /\ events = 3

\* ---- C35 ----
\* C35: with the socket open, a job bound and no gesture in progress, a step
\* in which the composition settles on new values sends exactly one update
\* message, and that message carries the new values.
OneUpdatePerChange ==
    [][(/\ wsState = "open" /\ wsState' = "open"
        /\ jobId # 0
        /\ ~isTransforming
        /\ settingsVer' # settingsVer) =>
          /\ Len(c2s') = Len(c2s) + 1
          /\ c2s'[Len(c2s')] = UpdateMessage(settingsVer')]_vars


\* ---- C36 ----
\* C36: whenever the Timeline is shown and no trim drag is in progress, the
\* range of its two handles is the startTime / endTime that Previewer puts in
\* the next export or process-preview request, also after the Timeline was
\* hidden during an export or preview-clip run and is shown again.
TimelineShowsSentRange ==
    (ExportShown /\ isDragging = "null") => (tlStart = startTime /\ tlEnd = endTime)
====
